---- MODULE Spec2Model ----
(***************************************************************************)
(* Rack / tube inventory of the Eppendorf tube sorter                      *)
(* (src/src/eppendorf_sorter/domain/racks.py).                             *)
(*                                                                         *)
(* The state is the RackSystemManager: its two dictionaries of racks       *)
(* (kept as sequences, because a Python dict iterates in insertion         *)
(* order), the TubeInfo objects the callers hold, the locks of the racks   *)
(* and of the manager, and the position of the calling thread.  Every      *)
(* manager method is one action.  `call` records the last call and what   *)
(* it returned, so that properties can speak about results.                *)
(***************************************************************************)
EXTENDS Integers, Sequences, FiniteSets, TLC

\* ------------------------------------------------------------------ bounds
NTubes == 2         \* TubeInfo objects the callers hold
MaxOps == 3         \* calls made after the initial state
MaxBatch == 2       \* barcodes in one LIS batch
MaxCycles == 1      \* passes of the loop of RobotThread.run

\* --------------------------------------------------------------- constants
MAX_TUBES == 50     \* BaseRack.MAX_TUBES

UGI == "pcr-1"
VPCH == "pcr-2"
UGI_VPCH == "pcr-1+pcr-2"
OTHER_ == "pcr"      \* TestType.OTHER (OTHER is a TLA+ keyword)
ERROR == "error"
UNKNOWN == "unknown"
TestType == {UGI, VPCH, UGI_VPCH, OTHER_, ERROR, UNKNOWN}

FREE == "free"
BUSY_ROBOT == "busy_robot"
WAITING_REPLACE == "waiting_replace"
RackOccupancy == {FREE, BUSY_ROBOT, WAITING_REPLACE}

None == -1          \* Python None in an Optional[int] / Optional[rack] place
NoThread == "-"     \* a lock nobody holds
RobotThread == "RobotThread"

\* The racks bootstrap.py registers.
SourceIds == {0, 1}
RackIds == 0 .. 6
BootType(r) ==
  IF r = 0 THEN OTHER_
  ELSE IF r \in {1, 2} THEN UGI
  ELSE IF r \in {3, 4} THEN VPCH
  ELSE UGI_VPCH
BootTarget == 50

\* Ids a caller may pass: the registered ones and one that is not registered.
PalletArgs == SourceIds \cup {2}
RackArgs == RackIds \cup {7}

\* The TubeInfo objects.  Tubes 1 and 2 are two objects carrying the same
\* barcode (the same tube scanned twice); Stock stands for the tubes placed
\* in a destination rack before the first modelled call.
Tubes == 1 .. NTubes
Stock == 0
Barcodes == {"A", "B"}
BarcodeOf(t) == IF t <= 2 THEN "A" ELSE "B"
SourceOf(t) == IF t <= 2 THEN 0 ELSE 1
TypeOf(t) == IF t = 1 THEN UGI ELSE IF t = 2 THEN OTHER_ ELSE VPCH

\* ---------------------------------------------------- robot_protocol.py
\* NR: numbers of the number registers; NR_VAL: their values.
NR_iteration_starter == 1
NR_scan_status == 2
NR_pause_status == 4
NRegs == {NR_iteration_starter, NR_scan_status, NR_pause_status}

READY == 0
STARTED == 1
COMPLETED == 2
SCAN_RESET == 0
SCAN_GOOD == 1
SCAN_BAD == 2
PAUSE_NOT_READY == 0
PAUSE_READY == 1

\* SR: numbers of the string registers; SR_VAL: the iteration types.
SR_iteration_type == 1
SR_movement_data == 2
SR_scan_data == 3
SRegs == {SR_iteration_type, SR_movement_data, SR_scan_data}

SORTING == "SORTING_ITERATION"
SCANNING == "SCANNING_ITERATION"
PAUSE == "PAUSE"
NONE == "NONE"

\* f"{n:02d}" for n >= 0: at least two digits, padded with a zero.
fmt02d(n) == IF n < 10 THEN "0" \o ToString(n) ELSE ToString(n)

\* f"{pallet_id:02d} {first_position:02d}"
scan_data(pallet_id, first_position) ==
  fmt02d(pallet_id) \o " " \o fmt02d(first_position)

\* f"{source_rack:02d} {number:02d} {dest_rack_id:02d} {dest_position:02d}"
data_str(source_rack, number, dest_rack_id, dest_position) ==
  fmt02d(source_rack) \o " " \o fmt02d(number) \o " " \o
  fmt02d(dest_rack_id) \o " " \o fmt02d(dest_position)

VARIABLES
  source_pallets,     \* RackSystemManager.source_pallets, in insertion order
  destination_racks,  \* RackSystemManager.destination_racks, in insertion order
  tube,               \* the TubeInfo objects, by identity
  mgr_lock,           \* RackSystemManager._lock (RLock): the thread holding it
  pc,                 \* "idle", or "blocked" inside a call that cannot go on
  call,               \* the last call and its result
  ops,                \* calls made so far
  nr,                 \* the robot's number registers R[1], R[2], R[4]
  sr,                 \* the robot's string registers SR[1], SR[2], SR[3]
  stop_event,         \* the global threading.Event
  epc,                \* where the RobotThread is in robot_logic.py
  loc,                \* the local variables of the RobotThread's methods
  oper,               \* the flags of the OperatorInputHandler
  wlog,               \* register writes of the engine in this iteration
  hist,               \* what happened in this phase (read by properties)
  lis                 \* one LISClient.get_tube_types_batch call

ivars == <<source_pallets, destination_racks, tube, mgr_lock, pc, call, ops>>
evars == <<nr, sr, stop_event, epc, loc, oper, wlog, hist>>
vars == <<source_pallets, destination_racks, tube, mgr_lock, pc, call, ops,
          nr, sr, stop_event, epc, loc, oper, wlog, hist, lis>>

\* -------------------------------------------------------------- TubeInfo
TubeInfo(barcode, source_rack, number, test_type) ==
  [barcode |-> barcode, source_rack |-> source_rack, number |-> number,
   test_type |-> test_type, destination_rack |-> None,
   destination_number |-> None]

is_placed(t) == tube[t].destination_rack # None

\* ------------------------------------------------------------ constructors
SourceRack(pallet_id) ==
  [rack_id |-> pallet_id, tubes |-> <<>>, sorted_count |-> 0,
   occupancy |-> FREE, lock |-> NoThread]

DestinationRack(rack_id, test_type, target) ==
  [rack_id |-> rack_id, test_type |-> test_type, target |-> target,
   tubes |-> <<>>, next_number |-> 0, occupancy |-> FREE, lock |-> NoThread]

\* A destination rack into which n tubes were placed one after the other.
FilledRack(rack_id, test_type, target, n) ==
  [DestinationRack(rack_id, test_type, target) EXCEPT
     !.tubes = [i \in 1 .. n |-> Stock], !.next_number = n]

initialize_source_racks == <<SourceRack(0), SourceRack(1)>>

\* ------------------------------------------------------------------ locks
\* threading.Lock: a second acquire by the holder waits like anybody else's.
LockAcquire_reentrant(holder, thr) == holder \in {NoThread, thr}
LockAcquire(holder, thr) == holder = NoThread

\* threading.RLock: the holder may acquire again.
RLockAcquire(holder, thr) == holder \in {NoThread, thr}

\* ------------------------------------------------------- the call record
Call(op, rack, t, typ, barcode, returned, result, found) ==
  [op |-> op, rack |-> rack, tube |-> t, type |-> typ, barcode |-> barcode,
   returned |-> returned, result |-> result, found |-> found]

NoCall == Call("-", None, Stock, "-", "-", TRUE, FALSE, None)

\* ------------------------------------------------------- dict look-ups
Index(racks, rack_id) ==
  IF \E i \in 1 .. Len(racks) : racks[i].rack_id = rack_id
  THEN CHOOSE i \in 1 .. Len(racks) : racks[i].rack_id = rack_id
  ELSE 0

get_source_pallet(pallet_id) == Index(source_pallets, pallet_id)
get_destination_rack(rack_id) == Index(destination_racks, rack_id)

get_racks_by_type(test_type) ==
  SelectSeq(destination_racks, LAMBDA r : r.test_type = test_type)

\* ------------------------------------------------------------ BaseRack
is_full(rack) == Len(rack.tubes) >= MAX_TUBES

\* The first tube of the rack carrying the barcode, or None.
get_tube_by_barcode(rack, barcode) ==
  LET hits == {i \in 1 .. Len(rack.tubes) : tube[rack.tubes[i]].barcode = barcode}
  IN IF hits = {} THEN None
     ELSE rack.tubes[CHOOSE i \in hits : \A j \in hits : i <= j]

has_barcode(rack, barcode) == get_tube_by_barcode(rack, barcode) # None

\* ------------------------------------------------------- DestinationRack
\* RackStatus
EMPTY == "empty"
PARTIAL == "partial"
TARGET_REACHED == "target_reached"
FULL == "full"

\* DestinationRack.get_status(): the count is compared with 0, then with
\* MAX_TUBES, then with the target.
get_status_target_first(rack) ==
  LET count == Len(rack.tubes)
  IN IF count = 0 THEN EMPTY
     ELSE IF count >= rack.target THEN TARGET_REACHED
     ELSE IF count >= MAX_TUBES THEN FULL
     ELSE PARTIAL
get_status(rack) ==
  LET count == Len(rack.tubes)
  IN IF count = 0 THEN EMPTY
     ELSE IF count >= MAX_TUBES THEN FULL
     ELSE IF count >= rack.target THEN TARGET_REACHED
     ELSE PARTIAL

\* set_target raises ValueError outside 0 .. MAX_TUBES.
set_target_raises(target) == ~(0 <= target /\ target <= MAX_TUBES)

reached_target(rack) == Len(rack.tubes) >= rack.target

\* add_tube raises ValueError on a rack that holds MAX_TUBES tubes.
add_tube_raises_above(rack) == Len(rack.tubes) > MAX_TUBES
add_tube_raises(rack) == Len(rack.tubes) >= MAX_TUBES

\* What add_tube writes into the tube ...
add_tube_destination_next(rack, tb) ==
  [tb EXCEPT !.destination_rack = rack.rack_id,
             !.destination_number = rack.next_number + 1]
add_tube_destination(rack, tb) ==
  [tb EXCEPT !.destination_rack = rack.rack_id,
             !.destination_number = rack.next_number]

\* ... and into the rack.
add_tube_rack(rack, t) ==
  [rack EXCEPT !.tubes = Append(@, t), !.next_number = @ + 1]

DestinationRack_reset_keeps_occupancy(rack) ==
  [rack EXCEPT !.tubes = <<>>, !.next_number = 0]
DestinationRack_reset(rack) ==
  [rack EXCEPT !.tubes = <<>>, !.next_number = 0, !.occupancy = FREE]

\* ------------------------------------------------------------ SourceRack
SourceRack_reset(rack) ==
  [rack EXCEPT !.tubes = <<>>, !.sorted_count = 0, !.occupancy = FREE]

clear_sorted(rack) ==
  [rack EXCEPT !.tubes =
     SelectSeq(@, LAMBDA t : tube[t].destination_rack = None)]

\* ------------------------------------------------------------- queries
\* sorted(racks, key=lambda r: r.rack_id)
RECURSIVE sorted_by_rack_id(_)
sorted_by_rack_id(racks) ==
  IF racks = <<>> THEN <<>>
  ELSE LET m == CHOOSE i \in 1 .. Len(racks) :
                  \A j \in 1 .. Len(racks) : racks[i].rack_id <= racks[j].rack_id
       IN <<racks[m]>> \o
          sorted_by_rack_id(SubSeq(racks, 1, m - 1) \o
                            SubSeq(racks, m + 1, Len(racks)))

\* The first rack of the sequence that has not reached its target, or None.
first_below_target(racks) ==
  LET below == {i \in 1 .. Len(racks) : ~reached_target(racks[i])}
  IN IF below = {} THEN None
     ELSE racks[CHOOSE i \in below : \A j \in below : i <= j].rack_id

\* RackSystemManager.find_available_rack(test_type): the rack it returns,
\* by its id, or None.
find_available_rack_any_fill(test_type) ==
  LET candidates == SelectSeq(destination_racks,
                      LAMBDA r : r.test_type = test_type)
  IN IF candidates = <<>> THEN None
     ELSE IF first_below_target(sorted_by_rack_id(candidates)) # None
     THEN first_below_target(sorted_by_rack_id(candidates))
     ELSE candidates[1].rack_id
find_available_rack_any_type(test_type) ==
  LET candidates == SelectSeq(destination_racks, LAMBDA r : ~is_full(r))
  IN IF candidates = <<>> THEN None
     ELSE IF first_below_target(sorted_by_rack_id(candidates)) # None
     THEN first_below_target(sorted_by_rack_id(candidates))
     ELSE candidates[1].rack_id
find_available_rack(test_type) ==
  LET candidates == SelectSeq(destination_racks,
                      LAMBDA r : r.test_type = test_type /\ ~is_full(r))
  IN IF candidates = <<>> THEN None
     ELSE IF first_below_target(sorted_by_rack_id(candidates)) # None
     THEN first_below_target(sorted_by_rack_id(candidates))
     ELSE candidates[1].rack_id

has_available_rack(test_type) == find_available_rack(test_type) # None

\* RackSystemManager.check_pair_reached_target(test_type)
check_pair_reached_target_any(test_type) ==
  LET type_racks == get_racks_by_type(test_type)
  IN IF test_type = OTHER_
     THEN IF type_racks # <<>> THEN reached_target(type_racks[1]) ELSE FALSE
     ELSE IF Len(type_racks) # 2 THEN FALSE
     ELSE \E i \in 1 .. Len(type_racks) : reached_target(type_racks[i])
check_pair_reached_target_other_pair(test_type) ==
  LET type_racks == get_racks_by_type(test_type)
  IN IF Len(type_racks) # 2 THEN FALSE
     ELSE \A i \in 1 .. Len(type_racks) : reached_target(type_racks[i])
check_pair_reached_target(test_type) ==
  LET type_racks == get_racks_by_type(test_type)
  IN IF test_type = OTHER_
     THEN IF type_racks # <<>> THEN reached_target(type_racks[1]) ELSE FALSE
     ELSE IF Len(type_racks) # 2 THEN FALSE
     ELSE \A i \in 1 .. Len(type_racks) : reached_target(type_racks[i])

\* A query takes the manager lock and the lock of every rack it reads.
CanQuery ==
  /\ pc = "idle"
  /\ RLockAcquire(mgr_lock, RobotThread)
  /\ \A i \in 1 .. Len(destination_racks) :
       LockAcquire(destination_racks[i].lock, RobotThread)

FindAvailableRack(test_type) ==
  /\ CanQuery
  /\ call' = Call("find_available_rack", None, Stock, test_type, "-", TRUE,
                  has_available_rack(test_type), find_available_rack(test_type))
  /\ UNCHANGED <<source_pallets, destination_racks, tube, mgr_lock, pc, ops>>

CheckPairReachedTarget(test_type) ==
  /\ CanQuery
  /\ call' = Call("check_pair_reached_target", None, Stock, test_type, "-",
                  TRUE, check_pair_reached_target(test_type), None)
  /\ UNCHANGED <<source_pallets, destination_racks, tube, mgr_lock, pc, ops>>

\* ------------------------------------------- a call starts / a call ends
CanCall ==
  /\ pc = "idle"
  /\ ops < MaxOps
  /\ RLockAcquire(mgr_lock, RobotThread)

Return(c) ==
  /\ call' = c
  /\ ops' = ops + 1
  /\ UNCHANGED <<mgr_lock, pc>>

\* --------------------------------------- operations on destination racks
\* RackSystemManager.add_tube_to_rack(rack_id, tube)
AddTubeToRack(rack_id, t) ==
  /\ CanCall
  /\ LET i == get_destination_rack(rack_id)
         c(result) == Call("add_tube_to_rack", rack_id, t, "-", "-",
                           TRUE, result, None)
     IN IF i = 0
        THEN /\ Return(c(FALSE))
             /\ UNCHANGED <<source_pallets, destination_racks, tube>>
        ELSE /\ LockAcquire(destination_racks[i].lock, RobotThread)
             /\ IF add_tube_raises(destination_racks[i])
                THEN /\ Return(c(FALSE))
                     /\ UNCHANGED <<source_pallets, destination_racks, tube>>
                ELSE /\ tube' = [tube EXCEPT ![t] =
                                   add_tube_destination(destination_racks[i], @)]
                     /\ destination_racks' = [destination_racks EXCEPT ![i] =
                                                add_tube_rack(@, t)]
                     /\ Return(c(TRUE))
                     /\ UNCHANGED source_pallets

\* DestinationRack.add_tube(tube), called on the rack object itself (as
\* robot_logic.py does); result FALSE stands for the ValueError it raises.
AddTube(rack_id, t) ==
  /\ pc = "idle"
  /\ ops < MaxOps
  /\ LET i == get_destination_rack(rack_id)
         c(result) == Call("add_tube", rack_id, t, "-", "-", TRUE, result, None)
     IN /\ i # 0
        /\ LockAcquire(destination_racks[i].lock, RobotThread)
        /\ IF add_tube_raises(destination_racks[i])
           THEN /\ Return(c(FALSE))
                /\ UNCHANGED <<source_pallets, destination_racks, tube>>
           ELSE /\ tube' = [tube EXCEPT ![t] =
                              add_tube_destination(destination_racks[i], @)]
                /\ destination_racks' = [destination_racks EXCEPT ![i] =
                                           add_tube_rack(@, t)]
                /\ Return(c(TRUE))
                /\ UNCHANGED source_pallets

\* RackSystemManager.reset_rack_pair(test_type)
ResetRackPair(test_type) ==
  /\ CanCall
  /\ \A i \in 1 .. Len(destination_racks) :
       destination_racks[i].test_type = test_type
         => LockAcquire(destination_racks[i].lock, RobotThread)
  /\ destination_racks' =
       [i \in 1 .. Len(destination_racks) |->
          IF destination_racks[i].test_type = test_type
          THEN DestinationRack_reset(destination_racks[i])
          ELSE destination_racks[i]]
  /\ Return(Call("reset_rack_pair", None, Stock, test_type, "-",
                 TRUE, TRUE, None))
  /\ UNCHANGED <<source_pallets, tube>>

\* ------------------------------------------- operations on source racks
\* The calling thread stays inside the call, holding the manager lock and the
\* lock of pallet i, waiting for a lock that is never released.
Block(i, c) ==
  /\ pc' = "blocked"
  /\ mgr_lock' = RobotThread
  /\ source_pallets' = [source_pallets EXCEPT ![i].lock = RobotThread]
  /\ call' = c
  /\ ops' = ops + 1
  /\ UNCHANGED <<destination_racks, tube>>

\* RackSystemManager.add_scanned_tube(pallet_id, tube), with
\* SourceRack.add_scanned_tube inside it.  The rack method takes self._lock
\* and, holding it, calls has_barcode -> get_tube_by_barcode, which takes
\* self._lock again.
AddScannedTube(pallet_id, t) ==
  /\ CanCall
  /\ LET i == get_source_pallet(pallet_id)
         c(returned, result) == Call("add_scanned_tube", pallet_id, t, "-",
                                     "-", returned, result, None)
     IN IF i = 0
        THEN /\ Return(c(TRUE, FALSE))
             /\ UNCHANGED <<source_pallets, destination_racks, tube>>
        ELSE /\ LockAcquire(source_pallets[i].lock, RobotThread)
             /\ IF tube[t].source_rack # source_pallets[i].rack_id
                THEN \* ValueError, caught by the manager
                     /\ Return(c(TRUE, FALSE))
                     /\ UNCHANGED <<source_pallets, destination_racks, tube>>
                ELSE IF ~LockAcquire(RobotThread, RobotThread)
                THEN Block(i, c(FALSE, FALSE))
                ELSE IF has_barcode(source_pallets[i], tube[t].barcode)
                THEN \* the rack method returns early, the manager returns True
                     /\ Return(c(TRUE, TRUE))
                     /\ UNCHANGED <<source_pallets, destination_racks, tube>>
                ELSE /\ source_pallets' = [source_pallets EXCEPT ![i].tubes =
                                             Append(@, t)]
                     /\ Return(c(TRUE, TRUE))
                     /\ UNCHANGED <<destination_racks, tube>>

\* RackSystemManager.mark_tube_sorted(pallet_id, barcode), with
\* SourceRack.mark_tube_sorted inside it: self._lock is taken, then
\* get_tube_by_barcode takes it again.
MarkTubeSorted(pallet_id, barcode) ==
  /\ CanCall
  /\ LET i == get_source_pallet(pallet_id)
         c(returned, result) == Call("mark_tube_sorted", pallet_id, Stock, "-",
                                     barcode, returned, result, None)
     IN IF i = 0
        THEN /\ Return(c(TRUE, FALSE))
             /\ UNCHANGED <<source_pallets, destination_racks, tube>>
        ELSE /\ LockAcquire(source_pallets[i].lock, RobotThread)
             /\ IF ~LockAcquire(RobotThread, RobotThread)
                THEN Block(i, c(FALSE, FALSE))
                ELSE LET t == get_tube_by_barcode(source_pallets[i], barcode)
                     IN IF t = None
                        THEN /\ Return(c(TRUE, FALSE))
                             /\ UNCHANGED <<source_pallets, destination_racks, tube>>
                        ELSE IF tube[t].destination_rack # None
                        THEN /\ Return(c(TRUE, FALSE))
                             /\ UNCHANGED <<source_pallets, destination_racks, tube>>
                        ELSE /\ source_pallets' =
                                  [source_pallets EXCEPT ![i].sorted_count = @ + 1]
                             /\ Return(c(TRUE, TRUE))
                             /\ UNCHANGED <<destination_racks, tube>>

\* RackSystemManager.clear_sorted_tubes()
ClearSortedTubes ==
  /\ CanCall
  /\ \A i \in 1 .. Len(source_pallets) :
       LockAcquire(source_pallets[i].lock, RobotThread)
  /\ source_pallets' = [i \in 1 .. Len(source_pallets) |->
                          clear_sorted(source_pallets[i])]
  /\ Return(Call("clear_sorted_tubes", None, Stock, "-", "-", TRUE, TRUE, None))
  /\ UNCHANGED <<destination_racks, tube>>

\* RackSystemManager.reset_all_source_pallets()
ResetAllSourcePallets ==
  /\ CanCall
  /\ \A i \in 1 .. Len(source_pallets) :
       LockAcquire(source_pallets[i].lock, RobotThread)
  /\ source_pallets' = [i \in 1 .. Len(source_pallets) |->
                          SourceRack_reset(source_pallets[i])]
  /\ Return(Call("reset_all_source_pallets", None, Stock, "-", "-",
                 TRUE, TRUE, None))
  /\ UNCHANGED <<destination_racks, tube>>

\* ---------------------------------------------------- the engine's state
\* One write of the engine into a register, as the log keeps it.
WriteN(reg, value) == [kind |-> "R", reg |-> reg, n |-> value, s |-> "-"]
WriteS(reg, value) == [kind |-> "SR", reg |-> reg, n |-> None, s |-> value]

\* The local variables of the RobotThread's methods.
NoLocals ==
  [pallet |-> 0,             \* _scan_all_source_racks: index of `pallet`
   row |-> 0,                \* _scan_all_source_racks: row
   col_start |-> 0,          \* _scan_position_group: col_start
   all_scanned_tubes |-> <<>>,
   tubes |-> <<>>,           \* _scan_position_group: the list it returns
   queue |-> <<>>,           \* _sort_all_tubes: tubes
   idx |-> 0,                \* _sort_all_tubes: idx
   dest_rack_id |-> None,    \* _execute_sorting_iteration: dest_rack_id
   dest_position |-> None,   \* _execute_sorting_iteration: dest_position
   success |-> "-",          \* what _execute_sorting_iteration returned
   in_run |-> FALSE,         \* the phase was called by run()
   pause_site |-> "sort",    \* the caller of _enter_waiting_mode
   cycle |-> 0,              \* passes of the loop of run() begun
   processed |-> 0,          \* _sort_all_tubes: processed
   failed |-> 0]             \* _sort_all_tubes: failed

\* What the properties read about the running phase.
NoHist ==
  [iter |-> "-",             \* kind of the iteration running or just ended
   ended |-> FALSE,          \* the iteration has just returned
   expired |-> "-",          \* the wait of this iteration that expired
   barcodes |-> <<>>,        \* what the scanner has just returned
   before |-> <<>>,          \* the inventory when the iteration began
   last_first |-> None,      \* first slot of the last scan payload, this rack
   covered |-> {},           \* slots of the groups scanned, this rack
   overlap |-> FALSE,        \* a slot was in two groups
   clean |-> TRUE,           \* no timeout, no stop, no pause-stop, this rack
   pending |-> FALSE,        \* pause asked in the last iteration, not resumed
   named |-> {},             \* <<rack, slot>> of the movement payloads written
                             \* since the rack's last reset
   parked |-> "-",           \* "parked" once PAUSE is written, "left" once
                             \* that pause is left
   replaced |-> "-"]         \* what wait_for_rack_replacement last returned

\* The OperatorInputHandler: the pause request and the confirmation signal.
\* `status` is what the last status query showed the operator.
NoStatus == [pallets |-> <<>>, racks |-> <<>>]
NoOperator ==
  [pause_requested |-> FALSE, confirmed |-> FALSE, status |-> NoStatus]

EngineOff ==
  /\ nr = [r \in NRegs |-> 0]
  /\ sr = [r \in SRegs |-> IF r = SR_iteration_type THEN NONE ELSE ""]
  /\ stop_event = FALSE
  /\ epc = "off"
  /\ loc = NoLocals
  /\ oper = NoOperator
  /\ wlog = <<>>
  /\ hist = NoHist

NoBatch == [barcodes |-> <<>>, outcome |-> <<>>, pending |-> {},
            results |-> <<>>, returned |-> FALSE]

LisOff == lis = NoBatch

\* ------------------------------------------------------------------ Init
\* bootstrap.initialize_destination_racks: racks 0..6 in ascending order,
\* every target 50.  The racks start empty or one tube short of full.
InitCounts == {0, MAX_TUBES - 1}

initialize_destination_racks(n) ==
  [i \in 1 .. 7 |-> FilledRack(i - 1, BootType(i - 1), BootTarget, n)]

InitTubes ==
  [t \in Tubes |-> TubeInfo(BarcodeOf(t), SourceOf(t), t - 1, TypeOf(t))]

Init ==
  /\ source_pallets = initialize_source_racks
  /\ \E n \in InitCounts : destination_racks = initialize_destination_racks(n)
  /\ tube = InitTubes
  /\ mgr_lock = NoThread
  /\ pc = "idle"
  /\ call = NoCall
  /\ ops = 0
  /\ EngineOff
  /\ LisOff

Next ==
  \/ \E r \in RackArgs, t \in Tubes :
       AddTubeToRack(r, t) /\ UNCHANGED <<evars, lis>>
  \/ \E r \in RackIds, t \in Tubes :
       AddTube(r, t) /\ UNCHANGED <<evars, lis>>
  \/ \E T \in TestType : ResetRackPair(T) /\ UNCHANGED <<evars, lis>>
  \/ \E p \in PalletArgs, t \in Tubes :
       AddScannedTube(p, t) /\ UNCHANGED <<evars, lis>>
  \/ \E p \in PalletArgs, b \in Barcodes :
       MarkTubeSorted(p, b) /\ UNCHANGED <<evars, lis>>
  \/ ClearSortedTubes /\ UNCHANGED <<evars, lis>>
  \/ ResetAllSourcePallets /\ UNCHANGED <<evars, lis>>

Spec == Init /\ [][Next]_vars

\* ------------------------------------------------ the queries as functions
\* initialize_destination_racks(racks_list) registers the racks in the order
\* of the list.  The queries filter by type, so the order of the two racks of
\* a pair is all of the order they can see.
RegistrationOrders ==
  {<<0>> \o a \o b \o c : a \in {<<1, 2>>, <<2, 1>>},
                          b \in {<<3, 4>>, <<4, 3>>},
                          c \in {<<5, 6>>, <<6, 5>>}}

\* <<tubes held, target>>: below target; target reached and one slot left; full.
Fills == {<<0, MAX_TUBES>>, <<MAX_TUBES - 1, MAX_TUBES - 1>>,
          <<MAX_TUBES, MAX_TUBES>>}

InitQuery ==
  /\ source_pallets = initialize_source_racks
  /\ \E order \in RegistrationOrders, fill \in [RackIds -> Fills] :
       destination_racks =
         [i \in 1 .. 7 |-> FilledRack(order[i], BootType(order[i]),
                                      fill[order[i]][2], fill[order[i]][1])]
  /\ tube = InitTubes
  /\ mgr_lock = NoThread
  /\ pc = "idle"
  /\ call = NoCall
  /\ ops = 0
  /\ EngineOff
  /\ LisOff

NextQuery ==
  \/ \E T \in TestType : FindAvailableRack(T) /\ UNCHANGED <<evars, lis>>
  \/ \E T \in TestType :
       CheckPairReachedTarget(T) /\ UNCHANGED <<evars, lis>>

SpecQuery == InitQuery /\ [][NextQuery]_vars

\* ================================================================ engine
\* The RobotThread of robot_logic.py, one action per stretch of code between
\* two waits, the robot controller and the operator beside it.
Running == epc \notin {"off", "done"} /\ pc = "idle"

\* _wait_until(condition): True as soon as a poll finds the condition, False
\* when stop_event is set or the deadline passes with the condition false.
WaitTrue(condition) == ~stop_event /\ condition
WaitFalse(condition) == stop_event \/ ~condition
\* The name of the wait when it is the deadline that ended it.
Expired(wait) == IF stop_event THEN "-" ELSE wait

\* --------------------------------------------- the robot controller
\* The program on the controller is not part of the repository; it writes
\* what robot_protocol.py says the robot writes, at a moment of its choice.
RobotScanReady ==
  /\ Running
  /\ sr[SR_iteration_type] = SCANNING
  /\ nr[NR_scan_status] = SCAN_RESET
  /\ nr' = [nr EXCEPT ![NR_scan_status] = 1]
  /\ UNCHANGED <<ivars, sr, stop_event, epc, loc, oper, wlog, hist, lis>>

RobotPauseReady ==
  /\ Running
  /\ sr[SR_iteration_type] = PAUSE
  /\ nr[NR_pause_status] = PAUSE_NOT_READY
  /\ nr' = [nr EXCEPT ![NR_pause_status] = PAUSE_READY]
  /\ UNCHANGED <<ivars, sr, stop_event, epc, loc, oper, wlog, hist, lis>>

RobotCompleted ==
  /\ Running
  /\ sr[SR_iteration_type] # NONE
  /\ nr[NR_iteration_starter] # COMPLETED
  /\ nr' = [nr EXCEPT ![NR_iteration_starter] = COMPLETED]
  /\ UNCHANGED <<ivars, sr, stop_event, epc, loc, oper, wlog, hist, lis>>

RobotReady ==
  /\ Running
  /\ nr[NR_iteration_starter] = COMPLETED
  /\ nr' = [nr EXCEPT ![NR_iteration_starter] = READY]
  /\ UNCHANGED <<ivars, sr, stop_event, epc, loc, oper, wlog, hist, lis>>

\* ------------------------------------------------------- the operator
\* Inside an iteration, or between its return and the pause hook.
InIteration ==
  epc \in {"sg_wait_ready", "sg_write", "sg_wait_status", "sg_scan",
           "sg_wait_completed", "sg_reset", "scan_check_pause",
           "si_find", "si_wait_ready", "si_write", "si_wait_completed",
           "si_place", "si_mark", "sort_check_pause"}

\* "pause" on the console
OperatorPause ==
  /\ Running
  /\ ~oper.pause_requested
  /\ oper' = [oper EXCEPT !.pause_requested = TRUE]
  /\ hist' = [hist EXCEPT !.pending = InIteration]
  /\ UNCHANGED <<ivars, nr, sr, stop_event, epc, loc, wlog, lis>>

\* "start" on the console
OperatorStart ==
  /\ Running
  /\ oper.pause_requested
  /\ oper' = [oper EXCEPT !.pause_requested = FALSE]
  /\ hist' = [hist EXCEPT !.pending = FALSE]
  /\ UNCHANGED <<ivars, nr, sr, stop_event, epc, loc, wlog, lis>>

\* the operator confirms that the racks were replaced
OperatorConfirm ==
  /\ Running
  /\ epc = "wait_replacement"
  /\ ~oper.confirmed
  /\ oper' = [oper EXCEPT !.confirmed = TRUE]
  /\ UNCHANGED <<ivars, nr, sr, stop_event, epc, loc, wlog, hist, lis>>

\* "stop" on the console, or shutdown.py
SetStop ==
  /\ Running
  /\ ~stop_event
  /\ stop_event' = TRUE
  /\ UNCHANGED <<ivars, nr, sr, epc, loc, oper, wlog, hist, lis>>

\* OperatorInputHandler.check_pause(): with no pause requested it returns
\* True at once; with one it waits for the resume or for stop_event.
check_pause_blocks == oper.pause_requested
check_pause_resumed == ~oper.pause_requested /\ ~stop_event
check_pause_stopped == stop_event

\* OperatorInputHandler.wait_for_rack_replacement(): it waits, with no
\* deadline, for the operator's confirmation or for stop_event.
wait_for_rack_replacement_confirmed == oper.confirmed /\ ~stop_event
wait_for_rack_replacement_stopped == stop_event

\* ------------------------------------------------------- the scanner
\* What stands in the source racks: two tubes in the last row of pallet 1.
Content(pallet_id, position) ==
  IF pallet_id = 1 /\ position = 46 THEN "A"
  ELSE IF pallet_id = 1 /\ position = 48 THEN "B"
  ELSE "NoRead"

\* The floats of ScannerHikrobotTCP.scan's (result, recv_time), as tokens.
ZeroTime == "0.0"
RecvTime == "0.1"

\* Python's truth value of a scanner result.
Truthy(barcode) == barcode \notin {"", ZeroTime}

\* scanner.scan(): one result per slot as _scan_position_group expects it,
\* with "NoRead" or "" for an empty slot, one result too few or too many,
\* nothing at all, or the (result, recv_time) pair of ScannerHikrobotTCP.
ScanResults(pallet_id, positions) ==
  LET k == Len(positions)
      read == [i \in 1 .. k |-> Content(pallet_id, positions[i])]
      blank == [i \in 1 .. k |-> IF read[i] = "NoRead" THEN "" ELSE read[i]]
      hits == {i \in 1 .. k : read[i] # "NoRead"}
      first == IF hits = {} THEN "NoRead"
               ELSE read[CHOOSE i \in hits : \A j \in hits : i <= j]
  IN {read, blank, SubSeq(read, 1, k - 1), read \o <<"X">>, <<>>,
      <<first, IF first = "NoRead" THEN ZeroTime ELSE RecvTime>>}

\* ------------------------------------------- _scan_position_group
\* positions = [row * 5 + col for col in range(col_start, col_end)]
col_end_short(col_start) == IF col_start = 0 THEN 3 ELSE 4
col_end(col_start) == IF col_start = 0 THEN 3 ELSE 5
positions(row, col_start) ==
  [i \in 1 .. (col_end(col_start) - col_start) |-> row * 5 + col_start + i - 1]

\* SourceRack.pallet_id, the alias of rack_id that robot_logic.py reads.
pallet_id(rack) == rack.rack_id

\* The results that become tubes: for i, barcode in enumerate(barcodes),
\* break at i >= group_size, `if barcode and barcode != "NoRead"`.
valid_results(barcodes, group_size) ==
  {i \in 1 .. Len(barcodes) :
     /\ i <= group_size
     /\ Truthy(barcodes[i])
     /\ barcodes[i] # "NoRead"}

\* The r-th smallest member of a set of numbers.
Nth(S, r) == CHOOSE i \in S : Cardinality({j \in S : j <= i}) = r

\* The TubeInfo objects made of the results, under new identities.
scanned_tubes_first_slot(barcodes, pid, pos) ==
  LET V == valid_results(barcodes, Len(pos))
      base == Cardinality(DOMAIN tube)
  IN [t \in (base + 1) .. (base + Cardinality(V)) |->
        TubeInfo(barcodes[Nth(V, t - base)], pid, pos[1], UNKNOWN)]
scanned_tubes(barcodes, pid, pos) ==
  LET V == valid_results(barcodes, Len(pos))
      base == Cardinality(DOMAIN tube)
  IN [t \in (base + 1) .. (base + Cardinality(V)) |->
        TubeInfo(barcodes[Nth(V, t - base)], pid, pos[Nth(V, t - base)],
                 UNKNOWN)]

BeginIteration(kind) ==
  [hist EXCEPT !.iter = kind, !.ended = FALSE, !.expired = "-",
               !.barcodes = <<>>,
               !.before = [racks |-> destination_racks,
                           pallets |-> source_pallets, tube |-> tube]]

CurrentPallet == source_pallets[loc.pallet]

\* Where _scan_all_source_racks returns to: run() goes on after the scan.
ScanEnd == IF loc.in_run THEN "run_after_scan" ELSE "done"

\* 1. wait for R[1] = READY; on failure return []
ScanGroupWaitReady ==
  /\ epc = "sg_wait_ready"
  /\ \/ /\ WaitTrue(nr[NR_iteration_starter] = READY)
        /\ epc' = "sg_write"
        /\ UNCHANGED <<loc, hist>>
     \/ /\ WaitFalse(nr[NR_iteration_starter] = READY)
        /\ epc' = "scan_check_pause"
        /\ loc' = [loc EXCEPT !.tubes = <<>>]
        /\ hist' = [hist EXCEPT !.ended = TRUE, !.expired = Expired("ready"),
                                !.clean = FALSE]
  /\ UNCHANGED <<ivars, nr, sr, stop_event, oper, wlog, lis>>

\* 2., 3. write SR[3] = "PP NN", then SR[1] = SCANNING
ScanGroupWrite_type_first ==
  /\ epc = "sg_write"
  /\ LET pos == positions(loc.row, loc.col_start)
         data == scan_data(pallet_id(CurrentPallet), pos[1])
     IN /\ sr' = [sr EXCEPT ![SR_scan_data] = data,
                            ![SR_iteration_type] = SCANNING]
        /\ wlog' = wlog \o <<WriteS(SR_iteration_type, SCANNING),
                              WriteS(SR_scan_data, data)>>
        /\ hist' = [hist EXCEPT
                      !.last_first = pos[1],
                      !.covered = IF hist.clean
                                  THEN @ \cup {pos[i] : i \in 1 .. Len(pos)}
                                  ELSE {},
                      !.overlap = @ \/ \E i \in 1 .. Len(pos) :
                                         pos[i] \in hist.covered]
  /\ epc' = "sg_wait_status"
  /\ UNCHANGED <<ivars, nr, stop_event, loc, oper, lis>>
ScanGroupWrite ==
  /\ epc = "sg_write"
  /\ LET pos == positions(loc.row, loc.col_start)
         data == scan_data(pallet_id(CurrentPallet), pos[1])
     IN /\ sr' = [sr EXCEPT ![SR_scan_data] = data,
                            ![SR_iteration_type] = SCANNING]
        /\ wlog' = wlog \o <<WriteS(SR_scan_data, data),
                              WriteS(SR_iteration_type, SCANNING)>>
        /\ hist' = [hist EXCEPT
                      !.last_first = pos[1],
                      !.covered = IF hist.clean
                                  THEN @ \cup {pos[i] : i \in 1 .. Len(pos)}
                                  ELSE {},
                      !.overlap = @ \/ \E i \in 1 .. Len(pos) :
                                         pos[i] \in hist.covered]
  /\ epc' = "sg_wait_status"
  /\ UNCHANGED <<ivars, nr, stop_event, loc, oper, lis>>

\* 4. wait for R[2] # RESET; on failure write SR[1] = NONE and return []
ScanGroupWaitStatus ==
  /\ epc = "sg_wait_status"
  /\ \/ /\ WaitTrue(nr[NR_scan_status] # SCAN_RESET)
        /\ epc' = "sg_scan"
        /\ UNCHANGED <<sr, loc, wlog, hist>>
     \/ /\ WaitFalse(nr[NR_scan_status] # SCAN_RESET)
        /\ sr' = [sr EXCEPT ![SR_iteration_type] = NONE]
        /\ wlog' = Append(wlog, WriteS(SR_iteration_type, NONE))
        /\ epc' = "scan_check_pause"
        /\ loc' = [loc EXCEPT !.tubes = <<>>]
        /\ hist' = [hist EXCEPT !.ended = TRUE, !.expired = Expired("scan"),
                                !.clean = FALSE]
  /\ UNCHANGED <<ivars, nr, stop_event, oper, lis>>

\* 5. scan, make the tubes, write R[2] = GOOD or BAD
ScanGroupScan ==
  /\ epc = "sg_scan"
  /\ LET pos == positions(loc.row, loc.col_start)
         pid == pallet_id(CurrentPallet)
     IN \E barcodes \in ScanResults(pid, pos) :
          LET new == scanned_tubes(barcodes, pid, pos)
              has_valid_barcode == valid_results(barcodes, Len(pos)) # {}
              status == IF has_valid_barcode THEN SCAN_GOOD ELSE SCAN_BAD
          IN /\ tube' = [t \in DOMAIN tube \cup DOMAIN new |->
                           IF t \in DOMAIN tube THEN tube[t] ELSE new[t]]
             /\ loc' = [loc EXCEPT !.tubes =
                          [r \in 1 .. Cardinality(DOMAIN new) |->
                             Cardinality(DOMAIN tube) + r]]
             /\ nr' = [nr EXCEPT ![NR_scan_status] = status]
             /\ wlog' = Append(wlog, WriteN(NR_scan_status, status))
             /\ hist' = [hist EXCEPT !.barcodes = barcodes]
  /\ epc' = "sg_wait_completed"
  /\ UNCHANGED <<source_pallets, destination_racks, mgr_lock, pc, call, ops,
                 sr, stop_event, oper, lis>>

\* 6. wait for R[1] = COMPLETED; a failure is logged and nothing else
ScanGroupWaitCompleted ==
  /\ epc = "sg_wait_completed"
  /\ \/ /\ WaitTrue(nr[NR_iteration_starter] = COMPLETED)
        /\ hist' = [hist EXCEPT !.barcodes = <<>>]
     \/ /\ WaitFalse(nr[NR_iteration_starter] = COMPLETED)
        /\ hist' = [hist EXCEPT !.expired = Expired("completed"),
                                !.clean = FALSE, !.barcodes = <<>>]
  /\ epc' = "sg_reset"
  /\ UNCHANGED <<ivars, nr, sr, stop_event, loc, oper, wlog, lis>>

\* 7. write R[1] = READY, R[2] = RESET, SR[1] = NONE; return tubes
ScanGroupReset ==
  /\ epc = "sg_reset"
  /\ nr' = [nr EXCEPT ![NR_iteration_starter] = READY,
                      ![NR_scan_status] = SCAN_RESET]
  /\ sr' = [sr EXCEPT ![SR_iteration_type] = NONE]
  /\ wlog' = wlog \o <<WriteN(NR_iteration_starter, READY),
                        WriteN(NR_scan_status, SCAN_RESET),
                        WriteS(SR_iteration_type, NONE)>>
  /\ hist' = [hist EXCEPT !.ended = TRUE]
  /\ epc' = "scan_check_pause"
  /\ UNCHANGED <<ivars, stop_event, loc, oper, lis>>

\* ------------------------------------------- _scan_all_source_racks
set_occupancy(rack, occupancy) == [rack EXCEPT !.occupancy = occupancy]

\* `for pallet in source_pallets:` with the code after the loop
ScanPalletLoop ==
  /\ epc = "scan_pallet"
  /\ IF loc.pallet > Len(source_pallets)
     THEN /\ epc' = IF loc.all_scanned_tubes = <<>> THEN ScanEnd ELSE "scan_lis"
          /\ UNCHANGED <<source_pallets, loc, hist>>
     ELSE IF stop_event
     THEN \* return []
          /\ epc' = "done"
          /\ loc' = [loc EXCEPT !.all_scanned_tubes = <<>>]
          /\ UNCHANGED <<source_pallets, hist>>
     ELSE \* pallet.occupy()
          /\ LockAcquire(CurrentPallet.lock, RobotThread)
          /\ source_pallets' = [source_pallets EXCEPT ![loc.pallet] =
                                  set_occupancy(@, BUSY_ROBOT)]
          /\ loc' = [loc EXCEPT !.row = 0]
          /\ hist' = [hist EXCEPT !.last_first = None, !.covered = {},
                                  !.overlap = FALSE, !.clean = TRUE]
          /\ epc' = "scan_row"
  /\ UNCHANGED <<destination_racks, tube, mgr_lock, pc, call, ops,
                 nr, sr, stop_event, oper, wlog, lis>>

\* `finally: pallet.release()` and the next pallet
LeavePallet_keeps_busy ==
  /\ LockAcquire(CurrentPallet.lock, RobotThread)
  /\ source_pallets' = source_pallets
  /\ epc' = "scan_pallet"
LeavePallet ==
  /\ LockAcquire(CurrentPallet.lock, RobotThread)
  /\ source_pallets' = [source_pallets EXCEPT ![loc.pallet] =
                          set_occupancy(@, FREE)]
  /\ epc' = "scan_pallet"

\* `for row in range(10):` up to the call of the first group
ScanRowLoop ==
  /\ epc = "scan_row"
  /\ IF loc.row >= 10
     THEN /\ LeavePallet
          /\ loc' = [loc EXCEPT !.pallet = @ + 1]
          /\ UNCHANGED hist
     ELSE IF stop_event
     THEN /\ LeavePallet
          /\ loc' = [loc EXCEPT !.pallet = @ + 1]
          /\ hist' = [hist EXCEPT !.clean = FALSE]
     ELSE /\ epc' = "sg_wait_ready"
          /\ loc' = [loc EXCEPT !.col_start = 0]
          /\ hist' = BeginIteration("scan")
          /\ UNCHANGED source_pallets
  /\ wlog' = IF epc' = "sg_wait_ready" THEN <<>> ELSE wlog
  /\ UNCHANGED <<destination_racks, tube, mgr_lock, pc, call, ops,
                 nr, sr, stop_event, oper, lis>>

\* After check_pause() returned True: the second group of the row, or the
\* next row.
ScanGoOn(scanned) ==
  IF loc.col_start = 0
  THEN /\ epc' = "sg_wait_ready"
       /\ loc' = [loc EXCEPT !.col_start = 3, !.all_scanned_tubes = scanned]
       /\ hist' = BeginIteration("scan")
       /\ wlog' = <<>>
  ELSE /\ epc' = "scan_row"
       /\ loc' = [loc EXCEPT !.row = @ + 1, !.all_scanned_tubes = scanned]
       /\ UNCHANGED <<hist, wlog>>

\* all_scanned_tubes.extend(tubes); if not check_pause(): break
ScanCheckPause_unhooked ==
  /\ epc = "scan_check_pause"
  /\ ScanGoOn(loc.all_scanned_tubes \o loc.tubes)
  /\ UNCHANGED <<ivars, nr, sr, stop_event, oper, lis>>
ScanCheckPause ==
  /\ epc = "scan_check_pause"
  /\ IF check_pause_blocks
     THEN /\ epc' = "scan_paused"
          /\ loc' = [loc EXCEPT !.all_scanned_tubes = @ \o loc.tubes]
          /\ UNCHANGED <<hist, wlog>>
     ELSE ScanGoOn(loc.all_scanned_tubes \o loc.tubes)
  /\ UNCHANGED <<ivars, nr, sr, stop_event, oper, lis>>

\* check_pause() returns: True after the resume, False after the stop
ScanPaused ==
  /\ epc = "scan_paused"
  /\ \/ /\ check_pause_resumed
        /\ ScanGoOn(loc.all_scanned_tubes)
        /\ UNCHANGED source_pallets
     \/ /\ check_pause_stopped
        /\ LeavePallet
        /\ loc' = [loc EXCEPT !.pallet = @ + 1]
        /\ hist' = [hist EXCEPT !.clean = FALSE]
        /\ UNCHANGED wlog
  /\ UNCHANGED <<destination_racks, tube, mgr_lock, pc, call, ops,
                 nr, sr, stop_event, oper, lis>>

\* barcode_to_test_type = lis_client.get_tube_types_batch(all_barcodes);
\* tube.test_type = barcode_to_test_type.get(tube.barcode, ERROR)
ScanLis ==
  /\ epc = "scan_lis"
  /\ LET all_barcodes == {tube[loc.all_scanned_tubes[i]].barcode :
                            i \in 1 .. Len(loc.all_scanned_tubes)}
         scanned == {loc.all_scanned_tubes[i] :
                       i \in 1 .. Len(loc.all_scanned_tubes)}
     IN \E barcode_to_test_type \in [all_barcodes -> TestType] :
          tube' = [t \in DOMAIN tube |->
                     IF t \in scanned
                     THEN [tube[t] EXCEPT !.test_type =
                             barcode_to_test_type[tube[t].barcode]]
                     ELSE tube[t]]
  /\ epc' = "scan_register"
  /\ loc' = [loc EXCEPT !.idx = 1]
  /\ UNCHANGED <<source_pallets, destination_racks, mgr_lock, pc, call, ops,
                 nr, sr, stop_event, oper, wlog, hist, lis>>

\* for tube in all_scanned_tubes: rack_manager.add_scanned_tube(...)
ScanRegister ==
  /\ epc = "scan_register"
  /\ IF loc.idx > Len(loc.all_scanned_tubes)
     THEN /\ epc' = ScanEnd
          /\ UNCHANGED <<ivars, loc>>
     ELSE /\ AddScannedTube(tube[loc.all_scanned_tubes[loc.idx]].source_rack,
                            loc.all_scanned_tubes[loc.idx])
          /\ epc' = epc
          /\ loc' = [loc EXCEPT !.idx = IF pc' = "blocked" THEN @ ELSE @ + 1]
  /\ UNCHANGED <<nr, sr, stop_event, oper, wlog, hist, lis>>

\* ------------------------------------------------------ the scan phase
\* The RobotThread enters _scan_all_source_racks with the racks of
\* bootstrap.py, the robot ready and nobody at the console.
InitScan ==
  /\ source_pallets = initialize_source_racks
  /\ destination_racks = initialize_destination_racks(0)
  /\ tube = InitTubes
  /\ mgr_lock = NoThread
  /\ pc = "idle"
  /\ call = NoCall
  /\ ops = 0
  /\ nr = [r \in NRegs |-> 0]
  /\ sr = [r \in SRegs |-> IF r = SR_iteration_type THEN NONE ELSE ""]
  /\ stop_event = FALSE
  /\ epc = "scan_pallet"
  /\ loc = [NoLocals EXCEPT !.pallet = 1]
  /\ oper = NoOperator
  /\ wlog = <<>>
  /\ hist = NoHist
  /\ LisOff

NextScan ==
  \/ ScanPalletLoop
  \/ ScanRowLoop
  \/ ScanGroupWaitReady
  \/ ScanGroupWrite
  \/ ScanGroupWaitStatus
  \/ ScanGroupScan
  \/ ScanGroupWaitCompleted
  \/ ScanGroupReset
  \/ ScanCheckPause
  \/ ScanPaused
  \/ ScanLis
  \/ ScanRegister
  \/ RobotScanReady
  \/ RobotCompleted
  \/ RobotReady
  \/ OperatorPause
  \/ OperatorStart
  \/ SetStop

SpecScan == InitScan /\ [][NextScan]_vars

\* ------------------------------------------- _execute_sorting_iteration
\* DestinationRack.get_next_position(), which robot_logic.py calls: the
\* next-free-slot cursor of the rack.
get_next_position(rack) == rack.next_number

CurrentTube == loc.queue[loc.idx]

\* How an iteration of _execute_sorting_iteration ends.
SortReturn(success, expired) ==
  /\ epc' = "sort_check_pause"
  /\ loc' = [loc EXCEPT !.success = success]
  /\ hist' = [hist EXCEPT !.ended = TRUE, !.expired = expired]

\* dest_rack = find_available_rack(tube.test_type); dest_rack_id,
\* dest_position
SortFind_writes_none ==
  /\ epc = "si_find"
  /\ CanQuery
  /\ LET dest_rack == find_available_rack(tube[CurrentTube].test_type)
     IN IF dest_rack = None
        THEN /\ sr' = [sr EXCEPT ![SR_iteration_type] = NONE]
             /\ wlog' = Append(wlog, WriteS(SR_iteration_type, NONE))
             /\ SortReturn("False", "-")
        ELSE /\ epc' = "si_wait_ready"
             /\ loc' = [loc EXCEPT
                          !.dest_rack_id = dest_rack,
                          !.dest_position = get_next_position(
                            destination_racks[get_destination_rack(dest_rack)])]
             /\ UNCHANGED <<hist, sr, wlog>>
  /\ UNCHANGED <<ivars, nr, stop_event, oper, lis>>
SortFind ==
  /\ epc = "si_find"
  /\ CanQuery
  /\ LET dest_rack == find_available_rack(tube[CurrentTube].test_type)
     IN IF dest_rack = None
        THEN SortReturn("False", "-")
        ELSE /\ epc' = "si_wait_ready"
             /\ loc' = [loc EXCEPT
                          !.dest_rack_id = dest_rack,
                          !.dest_position = get_next_position(
                            destination_racks[get_destination_rack(dest_rack)])]
             /\ UNCHANGED hist
  /\ UNCHANGED <<ivars, nr, sr, stop_event, oper, wlog, lis>>

\* 1. wait for R[1] = READY; on failure return False
SortWaitReady ==
  /\ epc = "si_wait_ready"
  /\ \/ /\ WaitTrue(nr[NR_iteration_starter] = READY)
        /\ epc' = "si_write"
        /\ UNCHANGED <<loc, hist>>
     \/ /\ WaitFalse(nr[NR_iteration_starter] = READY)
        /\ SortReturn("False", Expired("ready"))
  /\ UNCHANGED <<ivars, nr, sr, stop_event, oper, wlog, lis>>

\* 2., 3. write SR[2] = "SS TT DD RR", then SR[1] = SORTING
SortWrite ==
  /\ epc = "si_write"
  /\ LET data == data_str(tube[CurrentTube].source_rack,
                          tube[CurrentTube].number,
                          loc.dest_rack_id, loc.dest_position)
     IN /\ sr' = [sr EXCEPT ![SR_movement_data] = data,
                            ![SR_iteration_type] = SORTING]
        /\ wlog' = wlog \o <<WriteS(SR_movement_data, data),
                              WriteS(SR_iteration_type, SORTING)>>
  /\ hist' = [hist EXCEPT
                !.named = @ \cup {<<loc.dest_rack_id, loc.dest_position>>}]
  /\ epc' = "si_wait_completed"
  /\ UNCHANGED <<ivars, nr, stop_event, loc, oper, lis>>

\* 4. wait for R[1] = COMPLETED; on failure write SR[1] = NONE, return False
SortWaitCompleted_places ==
  /\ epc = "si_wait_completed"
  /\ \/ /\ WaitTrue(nr[NR_iteration_starter] = COMPLETED)
        /\ UNCHANGED hist
     \/ /\ WaitFalse(nr[NR_iteration_starter] = COMPLETED)
        /\ hist' = [hist EXCEPT !.expired = Expired("completed")]
  /\ epc' = "si_place"
  /\ UNCHANGED <<ivars, nr, sr, stop_event, loc, oper, wlog, lis>>
SortWaitCompleted ==
  /\ epc = "si_wait_completed"
  /\ \/ /\ WaitTrue(nr[NR_iteration_starter] = COMPLETED)
        /\ epc' = "si_place"
        /\ UNCHANGED <<sr, wlog, loc, hist>>
     \/ /\ WaitFalse(nr[NR_iteration_starter] = COMPLETED)
        /\ sr' = [sr EXCEPT ![SR_iteration_type] = NONE]
        /\ wlog' = Append(wlog, WriteS(SR_iteration_type, NONE))
        /\ SortReturn("False", Expired("completed"))
  /\ UNCHANGED <<ivars, nr, stop_event, oper, lis>>

\* dest_rack.add_tube(tube); its ValueError ends the thread's work
SortPlace ==
  /\ epc = "si_place"
  /\ AddTube(loc.dest_rack_id, CurrentTube)
  /\ IF call'.result
     THEN epc' = "si_mark" /\ UNCHANGED loc
     ELSE epc' = "done" /\ loc' = [loc EXCEPT !.success = "raised"]
  /\ UNCHANGED <<nr, sr, stop_event, oper, wlog, hist, lis>>

\* rack_manager.mark_tube_sorted(tube.source_rack, tube.barcode); when it
\* returns: 5. write R[1] = READY, SR[1] = NONE; return True
SortMark ==
  /\ epc = "si_mark"
  /\ MarkTubeSorted(tube[CurrentTube].source_rack, tube[CurrentTube].barcode)
  /\ IF pc' = "blocked"
     THEN UNCHANGED <<nr, sr, epc, loc, wlog, hist>>
     ELSE /\ nr' = [nr EXCEPT ![NR_iteration_starter] = READY]
          /\ sr' = [sr EXCEPT ![SR_iteration_type] = NONE]
          /\ wlog' = wlog \o <<WriteN(NR_iteration_starter, READY),
                                WriteS(SR_iteration_type, NONE)>>
          /\ SortReturn("True", hist.expired)
  /\ UNCHANGED <<stop_event, oper, lis>>

\* ------------------------------------ _enter_waiting_mode, _exit_waiting_mode
\* _enter_waiting_mode returns nothing, whatever its waits did.
EnterReturn(expired) ==
  /\ epc' = "wait_replacement"
  /\ hist' = [hist EXCEPT !.ended = TRUE, !.expired = expired,
                          !.replaced = "-"]

\* wait for R[1] = READY; on failure return
EnterWaitReady ==
  /\ epc = "ew_wait_ready"
  /\ \/ /\ WaitTrue(nr[NR_iteration_starter] = READY)
        /\ epc' = "ew_write"
        /\ UNCHANGED hist
     \/ /\ WaitFalse(nr[NR_iteration_starter] = READY)
        /\ EnterReturn(Expired("ready"))
  /\ UNCHANGED <<ivars, nr, sr, stop_event, loc, oper, wlog, lis>>

\* write SR[1] = PAUSE
EnterWrite ==
  /\ epc = "ew_write"
  /\ sr' = [sr EXCEPT ![SR_iteration_type] = PAUSE]
  /\ wlog' = Append(wlog, WriteS(SR_iteration_type, PAUSE))
  /\ hist' = [hist EXCEPT !.parked = "parked"]
  /\ epc' = "ew_wait_pause"
  /\ UNCHANGED <<ivars, nr, stop_event, loc, oper, lis>>

\* wait for R[4] = PAUSE_READY; return either way
EnterWaitPause ==
  /\ epc = "ew_wait_pause"
  /\ \/ /\ WaitTrue(nr[NR_pause_status] = PAUSE_READY)
        /\ EnterReturn("-")
     \/ /\ WaitFalse(nr[NR_pause_status] = PAUSE_READY)
        /\ EnterReturn(Expired("pause"))
  /\ UNCHANGED <<ivars, nr, sr, stop_event, loc, oper, wlog, lis>>

\* Where the caller of _exit_waiting_mode goes on: _sort_all_tubes resets
\* the rack pair, run() scans after a failed admission check and resets the
\* source pallets after an empty scan or a finished cycle.
AfterExit ==
  IF loc.pause_site = "sort" THEN "sort_replaced"
  ELSE IF loc.pause_site = "admission" THEN "scan_pallet"
  ELSE "run_reset"

\* OperatorInputHandler.wait_for_rack_replacement(): True after the
\* operator's confirmation, False after the stop; then, in _sort_all_tubes,
\* `if self.stop_event.is_set(): break`, or _exit_waiting_mode begins.
WaitReplacement_skips_exit ==
  /\ epc = "wait_replacement"
  /\ \/ /\ wait_for_rack_replacement_confirmed
        /\ oper' = [oper EXCEPT !.confirmed = FALSE]
        /\ epc' = AfterExit
        /\ hist' = [hist EXCEPT !.replaced = "True"]
        /\ UNCHANGED wlog
     \/ /\ wait_for_rack_replacement_stopped
        /\ epc' = "done"
        /\ hist' = [hist EXCEPT !.replaced = "False"]
        /\ UNCHANGED <<oper, wlog>>
  /\ UNCHANGED <<ivars, nr, sr, stop_event, loc, lis>>
WaitReplacement_ignores_result ==
  /\ epc = "wait_replacement"
  /\ \/ /\ wait_for_rack_replacement_confirmed
        /\ oper' = [oper EXCEPT !.confirmed = FALSE]
        /\ hist' = [hist EXCEPT !.ended = FALSE, !.expired = "-",
                                !.replaced = "True"]
     \/ /\ wait_for_rack_replacement_stopped
        /\ hist' = [hist EXCEPT !.ended = FALSE, !.expired = "-",
                                !.replaced = "False"]
        /\ UNCHANGED oper
  /\ epc' = "xw_start"
  /\ wlog' = <<>>
  /\ UNCHANGED <<ivars, nr, sr, stop_event, loc, lis>>
WaitReplacement ==
  /\ epc = "wait_replacement"
  /\ \/ /\ wait_for_rack_replacement_confirmed
        /\ oper' = [oper EXCEPT !.confirmed = FALSE]
        /\ epc' = "xw_start"
        /\ hist' = [hist EXCEPT !.ended = FALSE, !.expired = "-",
                                !.replaced = "True"]
        /\ wlog' = <<>>
     \/ /\ wait_for_rack_replacement_stopped
        /\ epc' = "done"
        /\ hist' = [hist EXCEPT !.replaced = "False"]
        /\ UNCHANGED <<oper, wlog>>
  /\ UNCHANGED <<ivars, nr, sr, stop_event, loc, lis>>

\* write R[4] = NOT_READY
ExitStart ==
  /\ epc = "xw_start"
  /\ nr' = [nr EXCEPT ![NR_pause_status] = PAUSE_NOT_READY]
  /\ wlog' = Append(wlog, WriteN(NR_pause_status, PAUSE_NOT_READY))
  /\ epc' = "xw_wait_completed"
  /\ UNCHANGED <<ivars, sr, stop_event, loc, oper, hist, lis>>

\* The pause is left once R[4] = NOT_READY is written and the wait for
\* COMPLETED is over.
StillParked ==
  IF /\ hist.parked = "parked"
     /\ \E i \in 1 .. Len(wlog) :
          wlog[i] = WriteN(NR_pause_status, PAUSE_NOT_READY)
  THEN "left"
  ELSE hist.parked

\* wait for R[1] = COMPLETED; a failure is logged and nothing else
ExitWaitCompleted ==
  /\ epc = "xw_wait_completed"
  /\ \/ /\ WaitTrue(nr[NR_iteration_starter] = COMPLETED)
        /\ hist' = [hist EXCEPT !.parked = StillParked]
     \/ /\ WaitFalse(nr[NR_iteration_starter] = COMPLETED)
        /\ hist' = [hist EXCEPT !.expired = Expired("completed"),
                                !.parked = StillParked]
  /\ epc' = "xw_reset"
  /\ UNCHANGED <<ivars, nr, sr, stop_event, loc, oper, wlog, lis>>

\* write R[1] = READY, SR[1] = NONE; return to _sort_all_tubes
ExitReset ==
  /\ epc = "xw_reset"
  /\ nr' = [nr EXCEPT ![NR_iteration_starter] = READY]
  /\ sr' = [sr EXCEPT ![SR_iteration_type] = NONE]
  /\ wlog' = wlog \o <<WriteN(NR_iteration_starter, READY),
                        WriteS(SR_iteration_type, NONE)>>
  /\ hist' = [hist EXCEPT !.ended = TRUE]
  /\ epc' = AfterExit
  /\ UNCHANGED <<ivars, stop_event, loc, oper, lis>>

\* ----------------------------------------------------- _sort_all_tubes
\* `if tube.test_type in [TestType.ERROR, TestType.UNKNOWN]:`
skipped_types_error_only == {ERROR}
skipped_types == {ERROR, UNKNOWN}

\* `if success: processed += 1 ... else: failed += 1`
Counted ==
  [loc EXCEPT !.processed = IF loc.success = "True" THEN @ + 1 ELSE @,
              !.failed = IF loc.success = "True" THEN @ ELSE @ + 1]

\* `for idx, tube in enumerate(tubes, 1):` up to the call of
\* _enter_waiting_mode or of _execute_sorting_iteration
SortLoop ==
  /\ epc = "sort_loop"
  /\ IF loc.idx > Len(loc.queue) \/ stop_event
     THEN IF loc.in_run /\ ~stop_event
          THEN \* back in run(): clear_sorted_tubes(), _enter_waiting_mode(...)
               /\ ClearSortedTubes
               /\ epc' = "ew_wait_ready"
               /\ loc' = [loc EXCEPT !.pause_site = "cycle_end"]
               /\ hist' = BeginIteration("pause")
               /\ wlog' = <<>>
          ELSE /\ epc' = "done"
               /\ UNCHANGED <<ivars, loc, hist, wlog>>
     ELSE IF tube[CurrentTube].test_type \in skipped_types
     THEN \* failed += 1; continue
          /\ epc' = "sort_loop"
          /\ loc' = [loc EXCEPT !.idx = @ + 1, !.failed = @ + 1]
          /\ UNCHANGED <<ivars, hist, wlog>>
     ELSE /\ CanQuery
          /\ IF find_available_rack(tube[CurrentTube].test_type) = None
             THEN /\ epc' = "ew_wait_ready"
                  /\ hist' = BeginIteration("pause")
             ELSE /\ epc' = "si_find"
                  /\ hist' = BeginIteration("sort")
          /\ wlog' = <<>>
          /\ loc' = [loc EXCEPT !.success = "-", !.pause_site = "sort"]
          /\ UNCHANGED ivars
  /\ UNCHANGED <<nr, sr, stop_event, oper, lis>>

\* The payloads of the racks that reset_rack_pair(test_type) does not reset.
NamedAfterReset(test_type) ==
  {p \in hist.named :
     destination_racks[get_destination_rack(p[1])].test_type # test_type}

\* rack_manager.reset_rack_pair(tube.test_type), then the second look for a
\* rack
SortReplaced ==
  /\ epc = "sort_replaced"
  /\ ResetRackPair(tube[CurrentTube].test_type)
  /\ IF \E i \in 1 .. Len(destination_racks) :
          destination_racks[i].test_type = tube[CurrentTube].test_type
     THEN /\ epc' = "si_find"
          /\ hist' = [BeginIteration("sort") EXCEPT
                        !.before.racks = destination_racks',
                        !.named = NamedAfterReset(tube[CurrentTube].test_type)]
          /\ wlog' = <<>>
          /\ loc' = [loc EXCEPT !.success = "-"]
     ELSE /\ epc' = "sort_loop"
          /\ loc' = [loc EXCEPT !.idx = @ + 1]
          /\ hist' = [hist EXCEPT
                        !.named = NamedAfterReset(tube[CurrentTube].test_type)]
          /\ UNCHANGED wlog
  /\ UNCHANGED <<nr, sr, stop_event, oper, lis>>

\* After check_pause() returned True: the next tube.
SortGoOn ==
  /\ epc' = "sort_loop"
  /\ loc' = [loc EXCEPT !.idx = @ + 1]

\* if not check_pause(): break
SortCheckPause_unhooked ==
  /\ epc = "sort_check_pause"
  /\ epc' = "sort_loop"
  /\ loc' = [Counted EXCEPT !.idx = @ + 1]
  /\ UNCHANGED <<ivars, nr, sr, stop_event, oper, wlog, hist, lis>>
SortCheckPause ==
  /\ epc = "sort_check_pause"
  /\ IF check_pause_blocks
     THEN epc' = "sort_paused" /\ loc' = Counted
     ELSE epc' = "sort_loop" /\ loc' = [Counted EXCEPT !.idx = @ + 1]
  /\ UNCHANGED <<ivars, nr, sr, stop_event, oper, wlog, hist, lis>>

SortPaused ==
  /\ epc = "sort_paused"
  /\ \/ check_pause_resumed /\ SortGoOn
     \/ check_pause_stopped /\ epc' = "done" /\ UNCHANGED loc
  /\ UNCHANGED <<ivars, nr, sr, stop_event, oper, wlog, hist, lis>>

\* ------------------------------------------------- _get_system_status
\* The status callback, run by the operator's thread: for every source
\* pallet get_tube_count() and get_sorted_count(), for every destination
\* rack get_tube_count() and get_status(), each call under the lock of its
\* rack alone.  Here all the reads happen in one step, the schedule in which
\* the robot thread runs between no two of them.
OperatorThread == "OperatorThread"

GetSystemStatus ==
  /\ epc \notin {"off", "done"}
  /\ LockAcquire(mgr_lock, OperatorThread)
  /\ \A i \in 1 .. Len(source_pallets) :
       LockAcquire(source_pallets[i].lock, OperatorThread)
  /\ \A i \in 1 .. Len(destination_racks) :
       LockAcquire(destination_racks[i].lock, OperatorThread)
  /\ LET status ==
           [pallets |-> [i \in 1 .. Len(source_pallets) |->
                           [scanned |-> Len(source_pallets[i].tubes),
                            sorted_count |-> source_pallets[i].sorted_count]],
            racks |-> [i \in 1 .. Len(destination_racks) |->
                         [count |-> Len(destination_racks[i].tubes),
                          status |-> get_status(destination_racks[i])]]]
     IN /\ status # oper.status
        /\ oper' = [oper EXCEPT !.status = status]
  /\ UNCHANGED <<ivars, nr, sr, stop_event, epc, loc, wlog, hist, lis>>

\* ------------------------------------------------------ the sort phase
\* The types the LIS gave the tubes: two tubes may go to the same rack, and
\* a tube of unknown type, or of the type of a failed lookup, is skipped.
SortTypes == {UGI, OTHER_, UNKNOWN, ERROR}

\* The RobotThread enters _sort_all_tubes with the tubes in some order and
\* the racks of bootstrap.py empty, one tube short of full, or full.
Queues ==
  {q \in [1 .. NTubes -> Tubes] : \A i, j \in 1 .. NTubes : q[i] = q[j] => i = j}

InitSort ==
  /\ source_pallets = initialize_source_racks
  /\ \E n \in InitCounts \cup {MAX_TUBES} :
       destination_racks = initialize_destination_racks(n)
  /\ \E types \in [Tubes -> SortTypes] :
       tube = [t \in Tubes |->
                 TubeInfo(BarcodeOf(t), SourceOf(t), t - 1, types[t])]
  /\ mgr_lock = NoThread
  /\ pc = "idle"
  /\ call = NoCall
  /\ ops = 0
  /\ nr = [r \in NRegs |-> 0]
  /\ sr = [r \in SRegs |-> IF r = SR_iteration_type THEN NONE ELSE ""]
  /\ stop_event = FALSE
  /\ epc = "sort_loop"
  /\ \E q \in Queues : loc = [NoLocals EXCEPT !.queue = q, !.idx = 1]
  /\ oper = NoOperator
  /\ wlog = <<>>
  /\ hist = NoHist
  /\ LisOff

NextSort ==
  \/ GetSystemStatus
  \/ SortLoop
  \/ SortFind
  \/ SortWaitReady
  \/ SortWrite
  \/ SortWaitCompleted
  \/ SortPlace
  \/ SortMark
  \/ SortCheckPause
  \/ SortPaused
  \/ EnterWaitReady
  \/ EnterWrite
  \/ EnterWaitPause
  \/ WaitReplacement
  \/ ExitStart
  \/ ExitWaitCompleted
  \/ ExitReset
  \/ SortReplaced
  \/ RobotPauseReady
  \/ RobotCompleted
  \/ RobotReady
  \/ OperatorPause
  \/ OperatorStart
  \/ OperatorConfirm
  \/ SetStop

SpecSort == InitSort /\ [][NextSort]_vars

\* ------------------------------------------ the status of a rack
\* DestinationRack.set_target(target) on the rack of the id
SetTarget(rack_id, target) ==
  /\ pc = "idle"
  /\ LET i == get_destination_rack(rack_id)
         c(result) == Call("set_target", rack_id, Stock, "-", "-", TRUE, result,
                           target)
     IN /\ i # 0
        /\ LockAcquire(destination_racks[i].lock, RobotThread)
        /\ IF set_target_raises(target)
           THEN /\ call' = c(FALSE)
                /\ UNCHANGED destination_racks
           ELSE /\ call' = c(TRUE)
                /\ destination_racks' =
                     [destination_racks EXCEPT ![i].target = target]
  /\ UNCHANGED <<source_pallets, tube, mgr_lock, pc, ops>>

\* DestinationRack.get_status() on the rack of the id; the status comes
\* back in the field `status` of the call record.
GetStatus(rack_id) ==
  /\ pc = "idle"
  /\ LET i == get_destination_rack(rack_id)
     IN /\ i # 0
        /\ LockAcquire(destination_racks[i].lock, RobotThread)
        /\ call' = Call("get_status", rack_id, Stock, "-", "-", TRUE, TRUE, None)
                     @@ [status |-> get_status(destination_racks[i])]
  /\ UNCHANGED <<source_pallets, destination_racks, tube, mgr_lock, pc, ops>>

\* One rack of bootstrap.py holding 0 .. MAX_TUBES tubes; the target is set
\* to any value, inside and outside its range, and the status is asked for.
StatusRack == 1
Targets == -1 .. MAX_TUBES + 1

InitStatus ==
  /\ source_pallets = initialize_source_racks
  /\ \E n \in 0 .. MAX_TUBES :
       destination_racks =
         <<FilledRack(StatusRack, BootType(StatusRack), BootTarget, n)>>
  /\ tube = InitTubes
  /\ mgr_lock = NoThread
  /\ pc = "idle"
  /\ call = NoCall
  /\ ops = 0
  /\ EngineOff
  /\ LisOff

NextStatus ==
  \/ \E t \in Targets : SetTarget(StatusRack, t) /\ UNCHANGED <<evars, lis>>
  \/ GetStatus(StatusRack) /\ UNCHANGED <<evars, lis>>

SpecStatus == InitStatus /\ [][NextStatus]_vars

\* --------------------------------------- occupancy and the bulk resets
\* BaseRack.set_occupancy on a source pallet, as occupy(), release() and
\* mark_waiting_replace() call it.
SourceSetOccupancy(id, occupancy) ==
  /\ pc = "idle"
  /\ ops < MaxOps
  /\ LET i == get_source_pallet(id)
     IN /\ i # 0
        /\ LockAcquire(source_pallets[i].lock, RobotThread)
        /\ source_pallets' = [source_pallets EXCEPT ![i] =
                                set_occupancy(@, occupancy)]
  /\ Return(Call("set_occupancy", id, Stock, "-", "-", TRUE, TRUE, None))
  /\ UNCHANGED <<destination_racks, tube>>

\* BaseRack.set_occupancy on a destination rack
DestinationSetOccupancy(id, occupancy) ==
  /\ pc = "idle"
  /\ ops < MaxOps
  /\ LET i == get_destination_rack(id)
     IN /\ i # 0
        /\ LockAcquire(destination_racks[i].lock, RobotThread)
        /\ destination_racks' = [destination_racks EXCEPT ![i] =
                                   set_occupancy(@, occupancy)]
  /\ Return(Call("set_occupancy", id, Stock, "-", "-", TRUE, TRUE, None))
  /\ UNCHANGED <<source_pallets, tube>>

\* The racks are filled, occupied and released, and reset in bulk.
NextReset ==
  \/ \E r \in RackIds, t \in Tubes :
       AddTube(r, t) /\ UNCHANGED <<evars, lis>>
  \/ \E p \in SourceIds, o \in RackOccupancy :
       SourceSetOccupancy(p, o) /\ UNCHANGED <<evars, lis>>
  \/ \E r \in RackIds, o \in RackOccupancy :
       DestinationSetOccupancy(r, o) /\ UNCHANGED <<evars, lis>>
  \/ \E T \in TestType : ResetRackPair(T) /\ UNCHANGED <<evars, lis>>
  \/ ResetAllSourcePallets /\ UNCHANGED <<evars, lis>>

SpecReset == Init /\ [][NextReset]_vars

\* ------------------------------- _execute_sorting_iteration, called alone
\* _execute_sorting_iteration(tube) is called for a tube with the racks of
\* bootstrap.py empty, one tube short of full, or full, and the controller
\* ready or not yet back from COMPLETED.
InitIteration ==
  /\ source_pallets = initialize_source_racks
  /\ \E n \in InitCounts \cup {MAX_TUBES} :
       destination_racks = initialize_destination_racks(n)
  /\ tube = InitTubes
  /\ mgr_lock = NoThread
  /\ pc = "idle"
  /\ call = NoCall
  /\ ops = 0
  /\ \E state \in {READY, COMPLETED} :
       nr = [r \in NRegs |-> IF r = NR_iteration_starter THEN state ELSE 0]
  /\ sr = [r \in SRegs |-> IF r = SR_iteration_type THEN NONE ELSE ""]
  /\ stop_event = FALSE
  /\ epc = "si_find"
  /\ \E q \in Queues : loc = [NoLocals EXCEPT !.queue = q, !.idx = 1]
  /\ oper = NoOperator
  /\ wlog = <<>>
  /\ hist = [NoHist EXCEPT !.iter = "sort",
                           !.before = [racks |-> destination_racks,
                                       pallets |-> source_pallets,
                                       tube |-> tube]]
  /\ LisOff

NextIteration ==
  \/ SortFind
  \/ SortWaitReady
  \/ SortWrite
  \/ SortWaitCompleted
  \/ SortPlace
  \/ SortMark
  \/ RobotCompleted
  \/ RobotReady
  \/ SetStop

SpecIteration == InitIteration /\ [][NextIteration]_vars

\* ------------------------------------------------- RobotThread.run
\* The RobotThread in either of its phases: scanning the source pallets, or
\* sorting the tubes it holds.
InitEngine == InitScan \/ InitSort

NextEngine ==
  \/ ScanPalletLoop
  \/ ScanRowLoop
  \/ ScanGroupWaitReady
  \/ ScanGroupWrite
  \/ ScanGroupWaitStatus
  \/ ScanGroupScan
  \/ ScanGroupWaitCompleted
  \/ ScanGroupReset
  \/ ScanCheckPause
  \/ ScanPaused
  \/ ScanLis
  \/ ScanRegister
  \/ SortLoop
  \/ SortFind
  \/ SortWaitReady
  \/ SortWrite
  \/ SortWaitCompleted
  \/ SortPlace
  \/ SortMark
  \/ SortCheckPause
  \/ SortPaused
  \/ EnterWaitReady
  \/ EnterWrite
  \/ EnterWaitPause
  \/ WaitReplacement
  \/ ExitStart
  \/ ExitWaitCompleted
  \/ ExitReset
  \/ SortReplaced
  \/ RobotScanReady
  \/ RobotPauseReady
  \/ RobotCompleted
  \/ RobotReady
  \/ OperatorPause
  \/ OperatorStart
  \/ OperatorConfirm
  \/ SetStop

SpecEngine == InitEngine /\ [][NextEngine]_vars

\* ------------------------------------------------------- RobotThread.run
\* _check_can_start_cycle(): every sortable type has an available rack.
CycleTypes == <<UGI, VPCH, UGI_VPCH, OTHER_>>

check_can_start_cycle ==
  \A i \in 1 .. Len(CycleTypes) : has_available_rack(CycleTypes[i])

\* The local variables of run() as a pass of its loop begins.
RunLocals ==
  [NoLocals EXCEPT !.in_run = TRUE, !.pallet = 1, !.cycle = loc.cycle + 1]

\* `while not self.stop_event.is_set():` and the admission check: on
\* failure _enter_waiting_mode(reason), else _scan_all_source_racks().
RunCheck ==
  /\ epc = "run_check"
  /\ IF stop_event
     THEN /\ epc' = "done"
          /\ UNCHANGED <<loc, hist, wlog>>
     ELSE /\ loc.cycle < MaxCycles
          /\ CanQuery
          /\ wlog' = <<>>
          /\ IF check_can_start_cycle
             THEN /\ epc' = "scan_pallet"
                  /\ loc' = RunLocals
                  /\ hist' = [NoHist EXCEPT !.named = hist.named,
                                            !.pending = hist.pending,
                                            !.parked = hist.parked]
             ELSE /\ epc' = "ew_wait_ready"
                  /\ loc' = [RunLocals EXCEPT !.pause_site = "admission"]
                  /\ hist' = [NoHist EXCEPT !.named = hist.named,
                                            !.pending = hist.pending,
                                            !.parked = hist.parked,
                                            !.iter = "pause",
                                            !.before = BeginIteration("pause").before]
  /\ UNCHANGED <<ivars, nr, sr, stop_event, oper, lis>>

\* After _scan_all_source_racks(): `if stop: break`; with no tubes
\* _enter_waiting_mode(...); else _sort_all_tubes(all_tubes).
RunAfterScan ==
  /\ epc = "run_after_scan"
  /\ IF stop_event
     THEN /\ epc' = "done"
          /\ UNCHANGED <<loc, hist, wlog>>
     ELSE IF loc.all_scanned_tubes = <<>>
     THEN /\ epc' = "ew_wait_ready"
          /\ loc' = [loc EXCEPT !.pause_site = "no_tubes"]
          /\ hist' = BeginIteration("pause")
          /\ wlog' = <<>>
     ELSE /\ epc' = "sort_loop"
          /\ loc' = [loc EXCEPT !.queue = loc.all_scanned_tubes, !.idx = 1]
          /\ UNCHANGED <<hist, wlog>>
  /\ UNCHANGED <<ivars, nr, sr, stop_event, oper, lis>>

\* rack_manager.reset_all_source_pallets(), then the top of the loop
RunReset ==
  /\ epc = "run_reset"
  /\ ResetAllSourcePallets
  /\ epc' = "run_check"
  /\ UNCHANGED <<nr, sr, stop_event, loc, oper, wlog, hist, lis>>

\* The RobotThread at the top of the loop of run(), the racks of
\* bootstrap.py empty or full; beside it, the thread entering
\* _sort_all_tubes with tubes in hand.
InitRun ==
  /\ source_pallets = initialize_source_racks
  /\ \E n \in {0, MAX_TUBES} :
       destination_racks = initialize_destination_racks(n)
  /\ tube = InitTubes
  /\ mgr_lock = NoThread
  /\ pc = "idle"
  /\ call = NoCall
  /\ ops = 0
  /\ nr = [r \in NRegs |-> 0]
  /\ sr = [r \in SRegs |-> IF r = SR_iteration_type THEN NONE ELSE ""]
  /\ stop_event = FALSE
  /\ epc = "run_check"
  /\ loc = [NoLocals EXCEPT !.in_run = TRUE]
  /\ oper = NoOperator
  /\ wlog = <<>>
  /\ hist = NoHist
  /\ LisOff

NextRun ==
  \/ RunCheck
  \/ RunAfterScan
  \/ RunReset
  \/ NextEngine

SpecRun == (InitRun \/ InitSort) /\ [][NextRun]_vars

\* ============================================================ lis/client.py
\* What one request to the LIS can come to: no answer (RequestException), a
\* status other than 200, a body that json() cannot decode, a body that is
\* not an object, JSON null, or an object with a list of tests.
TestLists ==
  {<<>>, <<"UGI">>, <<"pcr-2">>, <<"ugi", "VPCH">>, <<"hiv", "PCR-7">>,
   <<"hiv">>}
Outcomes ==
  {[kind |-> k, tests |-> <<>>] :
     k \in {"no_response", "status_500", "bad_json", "json_list",
            "json_null"}}
  \cup {[kind |-> "json_object", tests |-> l] : l \in TestLists}

\* str.lower() on the names above
lower(t) ==
  IF t = "UGI" THEN "ugi" ELSE IF t = "VPCH" THEN "vpch"
  ELSE IF t = "PCR-7" THEN "pcr-7" ELSE t

\* "pcr" in t, for a lowered name
contains_pcr(t) == t \in {"pcr", "pcr-1", "pcr-2", "pcr-7"}

\* get_tube_info_sync: what the future holds in the end.  `none` stands
\* for a result of None, `raised` for an exception that left the worker.
get_tube_info_sync(o) ==
  [raised |-> o.kind = "bad_json",
   none |-> o.kind \in {"no_response", "status_500", "json_null"},
   object |-> o.kind = "json_object",
   tests |-> o.tests]

\* parse_test_type(response), for a response that is None or an object
parse_test_type_none_unknown(response) ==
  IF response.none \/ response.tests = <<>> THEN UNKNOWN
  ELSE LET tests == response.tests
           has_ugi == \E i \in 1 .. Len(tests) :
                        lower(tests[i]) \in {"ugi", "pcr-1"}
           has_vpch == \E i \in 1 .. Len(tests) :
                         lower(tests[i]) \in {"vpch", "pcr-2"}
       IN IF has_ugi /\ has_vpch THEN UGI_VPCH
          ELSE IF has_ugi THEN UGI
          ELSE IF has_vpch THEN VPCH
          ELSE IF \E i \in 1 .. Len(tests) : contains_pcr(lower(tests[i]))
          THEN OTHER_
          ELSE UNKNOWN
parse_test_type(response) ==
  IF response.none THEN ERROR
  ELSE IF response.tests = <<>> THEN UNKNOWN
  ELSE LET tests == response.tests
           has_ugi == \E i \in 1 .. Len(tests) :
                        lower(tests[i]) \in {"ugi", "pcr-1"}
           has_vpch == \E i \in 1 .. Len(tests) :
                         lower(tests[i]) \in {"vpch", "pcr-2"}
       IN IF has_ugi /\ has_vpch THEN UGI_VPCH
          ELSE IF has_ugi THEN UGI
          ELSE IF has_vpch THEN VPCH
          ELSE IF \E i \in 1 .. Len(tests) : contains_pcr(lower(tests[i]))
          THEN OTHER_
          ELSE UNKNOWN

\* The body of `for future in as_completed(...)`: the type stored for the
\* future.  An exception of the worker comes out of future.result(); a
\* response that is not an object makes parse_test_type raise at .get().
batch_entry(o) ==
  LET response == get_tube_info_sync(o)
  IN IF response.raised THEN ERROR
     ELSE IF ~response.none /\ ~response.object THEN ERROR
     ELSE parse_test_type(response)

\* as_completed hands over one of the futures that are left
LisComplete(i) ==
  /\ ~lis.returned
  /\ i \in lis.pending
  /\ LET barcode == lis.barcodes[i]
         test_type == batch_entry(lis.outcome[i])
     IN lis' = [lis EXCEPT
                  !.pending = @ \ {i},
                  !.results = [b \in DOMAIN lis.results \cup {barcode} |->
                                 IF b = barcode THEN test_type
                                 ELSE lis.results[b]]]
  /\ UNCHANGED <<ivars, evars>>

\* `if not barcodes: return {}`, or `return results` after the loop
LisReturn ==
  /\ ~lis.returned
  /\ lis.pending = {}
  /\ lis' = [lis EXCEPT !.returned = TRUE]
  /\ UNCHANGED <<ivars, evars>>

\* get_tube_types_batch(barcodes) is called with up to MaxBatch barcodes,
\* and every request has its outcome.
BatchInputs ==
  UNION {[1 .. n -> Barcodes] : n \in 0 .. MaxBatch}

InitLis ==
  /\ source_pallets = initialize_source_racks
  /\ destination_racks = initialize_destination_racks(0)
  /\ tube = InitTubes
  /\ mgr_lock = NoThread
  /\ pc = "idle"
  /\ call = NoCall
  /\ ops = 0
  /\ EngineOff
  /\ \E barcodes \in BatchInputs :
       \E outcome \in [1 .. Len(barcodes) -> Outcomes] :
         lis = [barcodes |-> barcodes, outcome |-> outcome,
                pending |-> 1 .. Len(barcodes), results |-> <<>>,
                returned |-> FALSE]

NextLis ==
  \/ \E i \in 1 .. MaxBatch : LisComplete(i)
  \/ LisReturn

SpecLis == InitLis /\ [][NextLis]_vars

\* =================================================================== claims
\* A step that is a call of op (queries excepted, which are read in `call`).
Called(op) == ops' = ops + 1 /\ call'.op = op

TubeCount(rack) == Len(rack.tubes)
RacksOfType(test_type) ==
  {i \in 1 .. Len(destination_racks) :
     destination_racks[i].test_type = test_type}

\* C1: every destination rack holds at most 50 tubes, and its next-free-slot
\* cursor equals the number of tubes it holds.
C1_CapacityAndCursor ==
  \A i \in 1 .. Len(destination_racks) :
    /\ TubeCount(destination_racks[i]) <= 50
    /\ destination_racks[i].next_number = TubeCount(destination_racks[i])

\* An accepted placement has just filled a rack to the last slot.
C1_Witness ==
  /\ call.op \in {"add_tube_to_rack", "add_tube"}
  /\ call.result
  /\ \E i \in 1 .. Len(destination_racks) :
       /\ destination_racks[i].rack_id = call.rack
       /\ TubeCount(destination_racks[i]) = 50
       /\ destination_racks[i].next_number = 50

\* C2: a placement called for a tube that already has a destination is
\* rejected; the tube keeps the destination of its first placement and no
\* rack changes.
C2_PlacedOnce ==
  [][(/\ Called("add_tube_to_rack") \/ Called("add_tube")
      /\ tube[call'.tube].destination_rack # None)
       => /\ ~call'.result
          /\ tube' = tube
          /\ destination_racks' = destination_racks]_vars

\* C3: mark_tube_sorted(p, barcode) on a registered pallet returns; for a
\* barcode held by the pallet it returns success and counts one, and called
\* again right after that success it returns failure and counts nothing.
C3_MarkTwice ==
  [][(Called("mark_tube_sorted") /\ get_source_pallet(call'.rack) # 0)
       => LET i == get_source_pallet(call'.rack)
              again == /\ call.op = "mark_tube_sorted"
                       /\ call.rack = call'.rack
                       /\ call.barcode = call'.barcode
                       /\ call.returned /\ call.result
              count == source_pallets[i].sorted_count
              count2 == source_pallets'[i].sorted_count
          IN /\ call'.returned
             /\ again => ~call'.result /\ count2 = count
             /\ (~again /\ has_barcode(source_pallets[i], call'.barcode))
                  => call'.result /\ count2 = count + 1]_vars

\* C8: add_tube_to_rack on a rack holding 50 tubes fails and changes neither
\* the rack nor the tube; on a rack below 50 it sets the tube's destination to
\* the rack and the old cursor, and appends the tube.
C8_AddTubeToRack ==
  [][(Called("add_tube_to_rack") /\ get_destination_rack(call'.rack) # 0)
       => LET i == get_destination_rack(call'.rack)
              t == call'.tube
              rack == destination_racks[i]
          IN IF TubeCount(rack) = 50
             THEN /\ ~call'.result
                  /\ destination_racks' = destination_racks
                  /\ tube' = tube
             ELSE /\ call'.result
                  /\ tube'[t].destination_rack = call'.rack
                  /\ tube'[t].destination_number = rack.next_number
                  /\ destination_racks'[i].tubes = Append(rack.tubes, t)
                  /\ destination_racks'[i].next_number = rack.next_number + 1]_vars

\* add_tube_to_rack was refused by a rack that holds 50 tubes.
C8_Witness ==
  /\ call.op = "add_tube_to_rack"
  /\ ~call.result
  /\ \E i \in 1 .. Len(destination_racks) :
       /\ destination_racks[i].rack_id = call.rack
       /\ TubeCount(destination_racks[i]) = 50
  /\ tube[call.tube].destination_rack = None

NoDuplicateBarcode(rack) ==
  \A i, j \in 1 .. Len(rack.tubes) :
    tube[rack.tubes[i]].barcode = tube[rack.tubes[j]].barcode => i = j

\* C9: add_scanned_tube(pallet_id, tube), for a tube scanned from that pallet,
\* returns false and leaves the pallet's tubes alone when the barcode is
\* already there, otherwise appends the tube and returns true; no pallet ever
\* holds a barcode twice.
C9_AddScannedTube ==
  [][(/\ Called("add_scanned_tube")
      /\ get_source_pallet(call'.rack) # 0
      /\ tube[call'.tube].source_rack = call'.rack)
       => LET i == get_source_pallet(call'.rack)
              t == call'.tube
          IN /\ call'.returned
             /\ IF has_barcode(source_pallets[i], tube[t].barcode)
                THEN /\ ~call'.result
                     /\ source_pallets'[i].tubes = source_pallets[i].tubes
                ELSE /\ call'.result
                     /\ source_pallets'[i].tubes =
                          Append(source_pallets[i].tubes, t)
             /\ \A k \in 1 .. Len(source_pallets) :
                  NoDuplicateBarcode(source_pallets'[k])]_vars

Reached(i) ==
  TubeCount(destination_racks[i]) >= destination_racks[i].target
Full(i) == TubeCount(destination_racks[i]) = 50

LowestId(S) ==
  destination_racks[CHOOSE i \in S : \A j \in S :
     destination_racks[i].rack_id <= destination_racks[j].rack_id].rack_id

\* C4: find_available_rack(type) returns the lowest-id non-full rack of the
\* type that has not reached its target if there is one, otherwise the
\* lowest-id non-full rack of the type, otherwise none, in whatever order the
\* racks were registered.
C4_LowestIdFirst ==
  call.op = "find_available_rack"
    => LET nonfull == {i \in RacksOfType(call.type) : ~Full(i)}
           below == {i \in nonfull : ~Reached(i)}
       IN call.found = IF below # {} THEN LowestId(below)
                       ELSE IF nonfull # {} THEN LowestId(nonfull)
                       ELSE None

\* C5: find_available_rack never returns a rack that holds 50 tubes, and it
\* returns none when every rack of the type is full.
C5_FullExcluded ==
  call.op = "find_available_rack"
    => /\ \A i \in 1 .. Len(destination_racks) :
            destination_racks[i].rack_id = call.found => ~Full(i)
       /\ (\A i \in RacksOfType(call.type) : Full(i)) => call.found = None

\* One rack of the type is full and the query answered with another one.
C5_Witness ==
  /\ call.op = "find_available_rack"
  /\ \E i \in RacksOfType(call.type) : Full(i)
  /\ call.found # None

\* C6: for a type served by two racks, check_pair_reached_target is true only
\* when both racks have reached their target.
C6_PairBothReached ==
  (call.op = "check_pair_reached_target"
     /\ Cardinality(RacksOfType(call.type)) = 2)
    => (call.result => \A i \in RacksOfType(call.type) : Reached(i))

\* The pair was queried with one rack full and the other below its target.
C6_Witness ==
  /\ call.op = "check_pair_reached_target"
  /\ Cardinality(RacksOfType(call.type)) = 2
  /\ \E i, j \in RacksOfType(call.type) : Full(i) /\ ~Reached(j)
  /\ ~call.result

\* C7 as claimed: for UGI_VPCH and for OTHER one rack of the class reaching its
\* target satisfies check_pair_reached_target; UGI and VPCH need both racks.
C7_SingleRackSuffices ==
  call.op = "check_pair_reached_target"
    => LET any == \E i \in RacksOfType(call.type) : Reached(i)
           all == \A i \in RacksOfType(call.type) : Reached(i)
       IN /\ call.type \in {UGI_VPCH, OTHER_} => (call.result <=> any)
          /\ call.type \in {UGI, VPCH} => (call.result <=> all)

\* C7 as amended: for OTHER the rack of the class reaching its target satisfies
\* check_pair_reached_target; UGI, VPCH and UGI_VPCH each need both of their
\* two racks to reach target.
C7_OnlyOtherSingle ==
  call.op = "check_pair_reached_target"
    => LET any == \E i \in RacksOfType(call.type) : Reached(i)
           all == \A i \in RacksOfType(call.type) : Reached(i)
       IN /\ call.type = OTHER_ => (call.result <=> any)
          /\ call.type \in {UGI, VPCH, UGI_VPCH} => (call.result <=> all)

\* The combined class was queried with exactly one of its racks at target, and
\* the OTHER rack was queried at target.
C7_Witness ==
  /\ call.op = "check_pair_reached_target"
  /\ \/ /\ call.type = UGI_VPCH
        /\ \E i, j \in RacksOfType(UGI_VPCH) : Reached(i) /\ ~Reached(j)
        /\ ~call.result
     \/ /\ call.type = OTHER_
        /\ \E i \in RacksOfType(OTHER_) : Reached(i)
        /\ call.result

\* ------------------------------------------------ claims about the engine
\* The sort iteration running, or the last one that ran, met its deadline
\* while it waited for COMPLETED.
SortTimedOut == hist.iter = "sort" /\ hist.expired = "completed"

\* C11: when the wait for COMPLETED of a sort iteration expires,
\* _execute_sorting_iteration returns False and the inventory is as it was
\* when the iteration began: count and cursor of every destination rack,
\* sorted count of every source rack, and no destination in the tube.
C11_TimeoutLeavesInventory ==
  SortTimedOut =>
    /\ hist.ended => loc.success = "False"
    /\ \A i \in 1 .. Len(destination_racks) :
         /\ TubeCount(destination_racks[i]) = TubeCount(hist.before.racks[i])
         /\ destination_racks[i].next_number =
              hist.before.racks[i].next_number
    /\ \A i \in 1 .. Len(source_pallets) :
         source_pallets[i].sorted_count = hist.before.pallets[i].sorted_count
    /\ \A t \in Tubes :
         /\ tube[t].destination_rack = hist.before.tube[t].destination_rack
         /\ tube[t].destination_number =
              hist.before.tube[t].destination_number

\* The iteration wrote its payload for a rack with one slot left, met the
\* deadline and returned.
C11_Witness ==
  /\ SortTimedOut
  /\ epc = "sort_check_pause"
  /\ loc.success = "False"
  /\ loc.dest_position = MAX_TUBES - 1
  /\ tube[CurrentTube].destination_rack = None
  /\ sr[SR_iteration_type] = NONE

\* The rack the running sort iteration chose, now and when it began.
DestRack == destination_racks[get_destination_rack(loc.dest_rack_id)]
DestRackBefore == hist.before.racks[get_destination_rack(loc.dest_rack_id)]

\* C12: a sort iteration that saw COMPLETED goes on to return True; the
\* payload it wrote for a tube of pallet s, slot n and a rack r holding c
\* tubes is "ss nn rr cc", and at its return rack r holds c + 1 tubes with
\* cursor c + 1 and the tube has destination_rack = r, destination_number = c.
C12_SortSucceeds ==
  /\ (hist.iter = "sort" /\ epc \in {"si_place", "si_mark"}) =>
       /\ pc = "idle"
       /\ sr[SR_movement_data] =
            data_str(tube[CurrentTube].source_rack, tube[CurrentTube].number,
                     loc.dest_rack_id, TubeCount(DestRackBefore))
  /\ (hist.iter = "sort" /\ epc = "sort_check_pause"
        /\ loc.success = "True") =>
       /\ TubeCount(DestRack) = TubeCount(DestRackBefore) + 1
       /\ DestRack.next_number = TubeCount(DestRackBefore) + 1
       /\ tube[CurrentTube].destination_rack = loc.dest_rack_id
       /\ tube[CurrentTube].destination_number = TubeCount(DestRackBefore)

C14_EngineNeverWritesReady ==
  \A i \in 1 .. Len(wlog) : wlog[i] # WriteN(NR_iteration_starter, READY)

\* C15: when the engine reaches the wait that follows its payload and
\* iteration-type writes (for COMPLETED in a sort iteration, for the pause
\* status in a pause iteration), it has written STARTED (1) to the
\* iteration-state register.
C15_StartedBeforeWait ==
  epc \in {"si_wait_completed", "ew_wait_pause"} =>
    \E i \in 1 .. Len(wlog) : wlog[i] = WriteN(NR_iteration_starter, STARTED)

\* C16: a scan-group iteration one of whose waits ended at its deadline
\* reports failure (it returns no tubes) and leaves iteration-type = NONE.
C16_ExpiryReportsFailure ==
  (epc = "scan_check_pause" /\ hist.ended /\ hist.expired # "-") =>
    /\ loc.tubes = <<>>
    /\ sr[SR_iteration_type] = NONE

\* A step that begins a scan-group or a sort iteration.
BeginsIteration ==
  /\ epc' \in {"sg_wait_ready", "si_find"}
  /\ epc \notin {"sg_wait_ready", "si_find"}

\* A step by which the thread leaves the pause hook it was blocked in.
LeavesPause ==
  /\ epc \in {"scan_paused", "sort_paused"}
  /\ epc' # epc

\* C17: the pause hook follows every scan-group and every sort iteration:
\* the operator's pause does not change where the thread is in the running
\* iteration, no iteration begins while a pause that was requested during
\* the one before is not yet resumed, and the thread leaves the hook only
\* after the resume, or ends its loop only after the stop signal.
C17_PauseBlocksNextIteration ==
  [][/\ oper'.pause_requested /\ ~oper.pause_requested => epc' = epc
     /\ BeginsIteration => ~hist.pending
     /\ LeavesPause =>
          IF epc' \in {"sg_wait_ready", "scan_row", "sort_loop"}
          THEN ~oper.pause_requested /\ ~stop_event
          ELSE stop_event]_vars

\* The pause came while a scan group was running; the group has returned
\* and the thread is blocked in the hook.
C17_Witness ==
  /\ epc = "scan_paused"
  /\ hist.iter = "scan"
  /\ hist.ended
  /\ hist.pending
  /\ oper.pause_requested

\* The step of _scan_position_group that writes the scan payload.
WritesScanPayload == epc = "sg_write" /\ epc' = "sg_wait_status"

\* The first slot of the group that follows the group starting at `first`
\* in row-major order: 0, 3, 5, 8, ..., 48.
NextFirst(first) ==
  IF first = None THEN 0 ELSE IF first % 5 = 0 THEN first + 3 ELSE first + 2

\* C19: within one source rack the first slots written in successive scan
\* payloads strictly increase, and in a scan without timeout and stop they
\* are 0, 3, 5, 8, ..., 48 in this order; when such a scan has done its ten
\* rows, every slot 0..49 is in exactly one scanned group.
C19_ScanOrder ==
  [][/\ WritesScanPayload =>
          \E first \in 0 .. MAX_TUBES - 1 :
            /\ sr'[SR_scan_data] = scan_data(pallet_id(CurrentPallet), first)
            /\ first > hist.last_first
            /\ hist.clean => first = NextFirst(hist.last_first)
     /\ (epc' = "scan_row" /\ loc'.row = 10 /\ hist'.clean) =>
          /\ hist'.covered = 0 .. MAX_TUBES - 1
          /\ ~hist'.overlap
          /\ hist'.last_first = 48]_vars

\* Pallet 1 was scanned to its last row without timeout or stop; the last
\* payload named slot 48.
C19_Witness ==
  /\ epc = "scan_row"
  /\ loc.row = 10
  /\ loc.pallet = 2
  /\ hist.clean
  /\ hist.covered = 0 .. MAX_TUBES - 1
  /\ sr[SR_scan_data] = "01 48"

\* ------------------------------------------ claims about the bulk resets
\* The step is the return of the named call.
Returns(op) == ops' = ops + 1 /\ call'.op = op

\* C20: reset_all_source_pallets leaves every source rack without tubes,
\* with sorted count 0 and free; reset_rack_pair(type) leaves every
\* destination rack of the type without tubes, with cursor 0 and free, and
\* changes no destination rack of another type and no source rack.
C20_ResetFrame ==
  [][/\ Returns("reset_all_source_pallets") =>
          \A i \in 1 .. Len(source_pallets') :
            /\ source_pallets'[i].tubes = <<>>
            /\ source_pallets'[i].sorted_count = 0
            /\ source_pallets'[i].occupancy = FREE
     /\ Returns("reset_rack_pair") =>
          /\ source_pallets' = source_pallets
          /\ Len(destination_racks') = Len(destination_racks)
          /\ \A i \in 1 .. Len(destination_racks) :
               IF destination_racks[i].test_type = call'.type
               THEN /\ destination_racks'[i].tubes = <<>>
                    /\ destination_racks'[i].next_number = 0
                    /\ destination_racks'[i].occupancy = FREE
               ELSE destination_racks'[i] = destination_racks[i]]_vars

\* reset_rack_pair(UGI) has returned: racks 1 and 2, which held 49 tubes,
\* are empty and free; rack 3 still holds its tubes and is busy, and pallet
\* 0 is still waiting for replacement.
C20_Witness ==
  /\ call.op = "reset_rack_pair"
  /\ call.type = UGI
  /\ destination_racks[2].tubes = <<>>
  /\ destination_racks[3].next_number = 0
  /\ Len(destination_racks[4].tubes) = MAX_TUBES - 1
  /\ destination_racks[4].occupancy = BUSY_ROBOT
  /\ source_pallets[1].occupancy = WAITING_REPLACE

\* ------------------------------------------- claims about the LIS client
\* Every request made for the barcode failed: no response, a status other
\* than 200, or an exception in the worker.
LookupFailed(barcode) ==
  \A i \in 1 .. Len(lis.barcodes) :
    lis.barcodes[i] = barcode =>
      lis.outcome[i].kind \in {"no_response", "status_500", "bad_json"}

\* C18: the mapping get_tube_types_batch returns for a non-empty list has an
\* entry for every barcode of the list, and the entry of a barcode whose
\* lookup failed is ERROR.
C18_EveryBarcodeHasEntry ==
  (lis.returned /\ lis.barcodes # <<>>) =>
    \A i \in 1 .. Len(lis.barcodes) :
      /\ lis.barcodes[i] \in DOMAIN lis.results
      /\ LookupFailed(lis.barcodes[i]) =>
           lis.results[lis.barcodes[i]] = ERROR

\* Two barcodes were asked for; one lookup got no response, the other an
\* answer with a test; both have their entry.
C18_Witness ==
  /\ lis.returned
  /\ Len(lis.barcodes) = 2
  /\ lis.barcodes[1] # lis.barcodes[2]
  /\ lis.outcome[1].kind = "no_response"
  /\ lis.outcome[2].kind = "json_object"
  /\ lis.results[lis.barcodes[1]] = ERROR
  /\ lis.results[lis.barcodes[2]] = VPCH

\* ------------------------------------------- claims about get_status
\* The rack whose status the last call returned.
StatusOf == destination_racks[get_destination_rack(call.rack)]

\* C21, as stated: the status is empty when n = 0, partial when 0 < n < t,
\* target-reached when t <= n < 50 and full when n = 50.
C21_StatusAsStated ==
  call.op = "get_status" =>
    LET n == Len(StatusOf.tubes)
        t == StatusOf.target
    IN /\ n = 0 => call.status = EMPTY
       /\ (0 < n /\ n < t) => call.status = PARTIAL
       /\ (t <= n /\ n < MAX_TUBES) => call.status = TARGET_REACHED
       /\ n = MAX_TUBES => call.status = FULL

\* C21, amended: the same, with target-reached for 0 < n only: an empty
\* rack is empty also when its target is 0.
C21_StatusByCounts ==
  call.op = "get_status" =>
    LET n == Len(StatusOf.tubes)
        t == StatusOf.target
    IN /\ n = 0 => call.status = EMPTY
       /\ (0 < n /\ n < t) => call.status = PARTIAL
       /\ (0 < n /\ t <= n /\ n < MAX_TUBES) => call.status = TARGET_REACHED
       /\ n = MAX_TUBES => call.status = FULL

\* A rack with 10 tubes and target 10 reported target-reached.
C21_Witness ==
  /\ call.op = "get_status"
  /\ Len(StatusOf.tubes) = 10
  /\ StatusOf.target = 10
  /\ call.status = TARGET_REACHED

\* ------------------------------------- claims about the status query
\* The step is a status query.
QueriesStatus == oper'.status # oper.status

\* In the status shown: the chosen rack holds one tube more than when the
\* sort iteration began; the tube's pallet has one more tube sorted.
ShowsPlaced ==
  LET r == get_destination_rack(loc.dest_rack_id)
  IN oper'.status.racks[r].count = Len(hist.before.racks[r].tubes) + 1
ShowsSorted ==
  LET p == get_source_pallet(tube[CurrentTube].source_rack)
  IN oper'.status.pallets[p].sorted_count =
       hist.before.pallets[p].sorted_count + 1

\* C22: a status query made while a sort iteration records its placement
\* shows both effects, the tube in the destination rack and the tube counted
\* as sorted in its pallet, or neither.
C22_StatusSnapshot ==
  [][(QueriesStatus
        /\ epc \in {"si_wait_completed", "si_place", "si_mark",
                     "sort_check_pause"})
       => (ShowsPlaced <=> ShowsSorted)]_vars

\* ------------------------------------- claims about the sort iteration
\* The step in which a sort iteration looks for a rack and finds none.
FindsNoRack ==
  /\ epc = "si_find"
  /\ epc' # epc
  /\ find_available_rack(tube[CurrentTube].test_type) = None

\* C23: a sort iteration that finds no rack for the tube's type returns
\* failure in that very step, with no register written by the engine and no
\* rack, pallet or tube changed.
C23_NoRackNoWrites ==
  [][FindsNoRack =>
       /\ epc' = "sort_check_pause"
       /\ loc'.success = "False"
       /\ hist'.ended /\ hist'.expired = "-"
       /\ wlog = <<>> /\ wlog' = <<>>
       /\ nr' = nr /\ sr' = sr
       /\ destination_racks' = destination_racks
       /\ source_pallets' = source_pallets
       /\ tube' = tube]_vars

\* The iteration was called with every rack full and has returned failure,
\* having chosen no rack and written nothing.
C23_Witness ==
  /\ epc = "sort_check_pause"
  /\ hist.iter = "sort"
  /\ loc.dest_rack_id = None
  /\ loc.success = "False"
  /\ wlog = <<>>
  /\ sr[SR_movement_data] = ""
  /\ \A i \in 1 .. Len(destination_racks) : is_full(destination_racks[i])

\* C24: when the engine starts to wait for COMPLETED in a scan iteration, it
\* has acknowledged the scan: its last write set the scan-status register
\* back to reset (0).
C24_ScanAcknowledged ==
  epc = "sg_wait_completed" =>
    /\ wlog # <<>>
    /\ wlog[Len(wlog)] = WriteN(NR_scan_status, SCAN_RESET)

\* The pallet the tube of the running sort iteration came from, now and
\* when the iteration began.
TubePallet ==
  source_pallets[get_source_pallet(tube[CurrentTube].source_rack)]
TubePalletBefore ==
  hist.before.pallets[get_source_pallet(tube[CurrentTube].source_rack)]

\* C25: in a sort iteration mark_tube_sorted returns for the tube just
\* placed, and when the iteration has returned True the chosen rack holds
\* exactly one tube more and the tube's pallet counts exactly one more tube
\* as sorted than when the iteration began.
C25_BothModelsRecord ==
  /\ (hist.iter = "sort" /\ epc = "si_mark") => pc = "idle"
  /\ (hist.iter = "sort" /\ epc = "sort_check_pause"
        /\ loc.success = "True") =>
       /\ TubeCount(DestRack) = TubeCount(DestRackBefore) + 1
       /\ TubePallet.sorted_count = TubePalletBefore.sorted_count + 1

\* The step of _execute_sorting_iteration that writes the movement payload.
WritesMovementPayload == epc = "si_write" /\ epc' = "si_wait_completed"

\* C26: a movement payload never names a slot of a destination rack that a
\* payload written since the rack's last reset has named already.
C26_NoSlotNamedTwice ==
  [][WritesMovementPayload =>
       <<loc.dest_rack_id, loc.dest_position>> \notin hist.named]_vars

\* ------------------------------------- claims about the pause iteration
\* C27: when the thread starts to wait for the operator's confirmation of a
\* rack replacement, the pause entry before it has written PAUSE and seen
\* pause-status = ready: none of its waits ended at the deadline.
C27_PromptOnlyWhenParked ==
  (epc = "wait_replacement" /\ ~stop_event) =>
    /\ hist.iter = "pause"
    /\ hist.expired = "-"
    /\ wlog = <<WriteS(SR_iteration_type, PAUSE)>>

\* A step that begins a scan-group, a sort or a pause iteration.
StartsIteration ==
  /\ epc' \in {"sg_wait_ready", "si_find", "ew_wait_ready"}
  /\ epc' # epc

StartsScanPhase ==
  /\ loc.in_run
  /\ epc \in {"run_check", "xw_reset"}
  /\ epc' = "scan_pallet"

\* C29: run() starts a scan phase only in a state where has_available_rack
\* holds for each of UGI, VPCH, UGI_VPCH and OTHER; after a failed admission
\* check no scan begins until the check holds.
C29_ScanOnlyWhenAdmitted == [][StartsScanPhase => check_can_start_cycle]_vars

\* A step by which the engine resets racks in memory.
ResetsRacks ==
  Returns("reset_rack_pair") \/ Returns("reset_all_source_pallets")

\* C30: reset_rack_pair in the sort phase and reset_all_source_pallets in
\* the run loop are executed only after wait_for_rack_replacement returned
\* True, never after it returned False.
C30_ResetOnlyAfterConfirmation ==
  [][ResetsRacks => hist.replaced = "True"]_vars

\* run() has reset the source pallets after the operator's confirmation.
C30_Witness ==
  /\ epc = "run_check"
  /\ call.op = "reset_all_source_pallets"
  /\ hist.replaced = "True"
  /\ hist.parked = "left"

\* ------------------------------------------ claims about the stop signal
\* A READY wait ends with READY seen: the iteration goes on to its writes.
ReadySeen ==
  /\ epc \in {"sg_wait_ready", "si_wait_ready", "ew_wait_ready"}
  /\ epc' \in {"sg_write", "si_write", "ew_write"}

\* The step that calls lis_client.get_tube_types_batch.
IssuesBatchQuery == epc = "scan_lis" /\ epc' = "scan_register"

\* C31: once stop_event is set no READY wait of a scan, sort or pause
\* iteration succeeds, so the iteration writes no payload and no iteration
\* type, and the batch query to the LIS is not issued.
C31_NothingStartsAfterStop ==
  [][stop_event => (~ReadySeen /\ ~IssuesBatchQuery)]_vars

\* C32: after stop_event is set the RobotThread comes to the end of run().
\* A thread blocked on a lock it holds itself takes no further step, so the
\* end is reachable only if the thread is never blocked once stop is set.
C32_StopEndsThread == stop_event => pc # "blocked"

\* -------------------------------------------- claims about the locks
\* The operations of the inventory that C33 names.
ReturningOps ==
  {"add_scanned_tube", "mark_tube_sorted", "add_tube_to_rack",
   "find_available_rack", "has_available_rack", "get_status"}

\* C33: every call of add_scanned_tube, mark_tube_sorted, add_tube_to_rack,
\* find_available_rack or of a status query returns: the caller is never
\* left waiting for a lock of the inventory.
C33_EveryCallReturns ==
  call.op \in ReturningOps => (call.returned /\ pc = "idle")

\* ------------------------------------ claims about the skipped tubes
\* The step of _sort_all_tubes on a tube whose type is ERROR or UNKNOWN.
SkipsTube ==
  /\ epc = "sort_loop"
  /\ loc.idx <= Len(loc.queue)
  /\ tube[CurrentTube].test_type \in {ERROR, UNKNOWN}
  /\ loc' # loc

\* C34: in the sort phase a tube of type ERROR or UNKNOWN is skipped and
\* counted as failed: the step writes no register and changes no rack, no
\* counter of a source rack and no tube, and the loop goes on to the next
\* tube of the list, in which every tube stands once.
C34_SkippedAndCounted ==
  [][SkipsTube =>
       /\ loc'.failed = loc.failed + 1
       /\ loc'.processed = loc.processed
       /\ loc'.idx = loc.idx + 1
       /\ loc'.queue = loc.queue
       /\ \A i, j \in 1 .. Len(loc.queue) : loc.queue[i] = loc.queue[j] => i = j
       /\ epc' = "sort_loop"
       /\ UNCHANGED <<nr, sr, wlog, destination_racks, source_pallets, tube>>]_vars

\* The first tube of the list had the type ERROR and has been skipped.
C34_Witness ==
  /\ epc = "sort_loop"
  /\ loc.idx = 2
  /\ loc.failed = 1
  /\ tube[loc.queue[1]].test_type = ERROR
  /\ wlog = <<>>

\* --------------------------------- claims about the tubes in the racks
\* C35: whatever sort iterations the engine has run, every tube it put into
\* a destination rack has the test type of that rack.
C35_TubesMatchRackType ==
  \A i \in 1 .. Len(destination_racks) :
    \A k \in 1 .. Len(destination_racks[i].tubes) :
      LET t == destination_racks[i].tubes[k]
      IN t # Stock => tube[t].test_type = destination_racks[i].test_type

\* The engine has put a tube into a rack.
C35_Witness ==
  /\ epc = "si_mark"
  /\ \E i \in 1 .. Len(destination_racks) :
       /\ destination_racks[i].rack_id = loc.dest_rack_id
       /\ TubeCount(destination_racks[i]) > 0
       /\ destination_racks[i].tubes[TubeCount(destination_racks[i])]
            = CurrentTube

\* C36: the tube at index k (from 0) of a destination rack's list has that
\* rack's id as destination_rack and k as destination_number.
C36_SlotIsListPosition ==
  \A i \in 1 .. Len(destination_racks) :
    \A k \in 1 .. Len(destination_racks[i].tubes) :
      LET t == destination_racks[i].tubes[k]
      IN t # Stock =>
           /\ tube[t].destination_rack = destination_racks[i].rack_id
           /\ tube[t].destination_number = k - 1

\* ---------------------------------------- claims about the occupancy
\* The thread is inside the `try` of the scan loop over pallet i.
ScanningPallet(i) ==
  /\ loc.pallet = i
  /\ epc \in {"scan_row", "sg_wait_ready", "sg_write", "sg_wait_status",
              "sg_scan", "sg_wait_completed", "sg_reset",
              "scan_check_pause", "scan_paused"}

EntersWrite ==
  /\ epc' \in {"sg_write", "si_write"}
  /\ epc' # epc

\* A step sets SR[1] to SCANNING or to SORTING.
SetsIterationType ==
  /\ sr'[SR_iteration_type] \in {SCANNING, SORTING}
  /\ sr'[SR_iteration_type] # sr[SR_iteration_type]

\* The payload register that belongs to the iteration type.
PayloadOf(type) == IF type = SCANNING THEN SR_scan_data ELSE SR_movement_data

\* C38: a scan or sort iteration comes to its writes only from a READY wait
\* that saw R[1] = READY, and it writes the payload register before it sets
\* SR[1] to SCANNING or SORTING: when the type is set, the write just
\* before it is this iteration's payload, which the register then holds.
C38_PayloadBeforeType ==
  [][/\ EntersWrite =>
          /\ epc \in {"sg_wait_ready", "si_wait_ready"}
          /\ nr[NR_iteration_starter] = READY
          /\ wlog = <<>>
     /\ SetsIterationType =>
          LET n == Len(wlog')
              type == sr'[SR_iteration_type]
          IN /\ epc \in {"sg_write", "si_write"}
             /\ n = 2
             /\ wlog'[n] = WriteS(SR_iteration_type, type)
             /\ wlog'[n - 1] = WriteS(PayloadOf(type), sr'[PayloadOf(type)])
             /\ sr'[PayloadOf(type)] =
                  IF type = SCANNING
                  THEN scan_data(pallet_id(CurrentPallet),
                                 positions(loc.row, loc.col_start)[1])
                  ELSE data_str(tube[CurrentTube].source_rack,
                                tube[CurrentTube].number,
                                loc.dest_rack_id, loc.dest_position)]_vars

\* A sort iteration has written its payload and then its type, and waits.
C38_Witness ==
  /\ epc = "si_wait_completed"
  /\ sr[SR_iteration_type] = SORTING
  /\ wlog = <<WriteS(SR_movement_data, sr[SR_movement_data]),
              WriteS(SR_iteration_type, SORTING)>>
  /\ loc.idx = 2

====
